---- MODULE Spec2Model ----
(***************************************************************************)
(* A model of the bloa tree-walking interpreter (src/src/interpreter.cpp,  *)
(* src/src/parser.cpp): the chained-scope Environment, the block parser,   *)
(* and the statement executor, as a small-step state machine whose stack   *)
(* of frames is the C++ call stack of execute_block.                       *)
(***************************************************************************)
EXTENDS Integers, Sequences, FiniteSets, TLC

(***************************************************************************)
(* Bounds of the model.                                                    *)
(***************************************************************************)
\* number of run() calls made on one Interpreter (a REPL session)
MaxRuns == 2
\* statements executed by one run() (cuts non-terminating while loops)
MaxSteps == 16
\* lines of a generated source
MaxLines == 4
\* block headers a generated try/except is nested in
MaxDepth == 2

(***************************************************************************)
(* Program constants.                                                      *)
(***************************************************************************)
\* parse_block recurses with base_indent+4
IndentStep == 4
\* indent_level counts a tab as 4
TabWidth == 4

(***************************************************************************)
(* Values (env.hpp, struct Value): a tagged union.  A double of the model *)
(* is the rational number it stands for, a record [n, d] in lowest terms   *)
(* with d > 0; the rounding of a double to 53 bits is not modelled, the    *)
(* numbers of the modelled programs are small.                             *)
(***************************************************************************)
Abs(i) == IF i < 0 THEN 0 - i ELSE i

RECURSIVE GCD(_, _)
GCD(a, b) == IF b = 0 THEN a ELSE GCD(b, a % b)

\* the double n/d (d # 0)
Rat(n, d) ==
    LET g == GCD(Abs(n), Abs(d))
        s == IF d < 0 THEN 0 - 1 ELSE 1
    IN [n |-> (s * n) \div g, d |-> (s * d) \div g]

\* static_cast<double>(int64_t)
to_double(i) == Rat(i, 1)

\* static_cast<int64_t>(double): truncation towards zero
to_int64(r) == IF r.n < 0 THEN 0 - ((0 - r.n) \div r.d) ELSE r.n \div r.d

\* std::floor(d) == d
is_whole(r) == r.d = 1

\* std::to_string(double) is printf("%f"): six digits after the point,
\* rounded to nearest
to_string(r) ==
    LET m == (Abs(r.n) * 2000000 + r.d) \div (2 * r.d)
        frac == m % 1000000
        pad == CASE frac < 10 -> "00000" [] frac < 100 -> "0000" [] frac < 1000 -> "000"
                 [] frac < 10000 -> "00" [] frac < 100000 -> "0" [] OTHER -> ""
    IN (IF r.n < 0 THEN "-" ELSE "") \o ToString(m \div 1000000) \o "." \o pad \o ToString(frac)

Nil == [k |-> "nil"]
make_bool(b) == [k |-> "bool", v |-> b]
make_int(i) == [k |-> "int", v |-> i]
make_double(d) == [k |-> "float", v |-> d]
make_str(s) == [k |-> "str", v |-> s]
make_list(l) == [k |-> "list", v |-> l]

\* std::nullopt of Environment::get, and "no entry" of the vars map
Unbound == [k |-> "unbound"]

RECURSIVE value_to_string(_)
RECURSIVE join_strings(_, _, _)
\* the loop of value_to_string over a list, from element i on
join_strings(list, i, sep) ==
    IF i > Len(list) THEN ""
    ELSE (IF i > 1 THEN sep ELSE "") \o value_to_string(list[i])
         \o join_strings(list, i + 1, sep)

value_to_string(v) ==
    CASE v.k = "nil" -> "None"
      [] v.k = "int" -> ToString(v.v)
      [] v.k = "float" -> IF is_whole(v.v) THEN ToString(to_int64(v.v)) ELSE to_string(v.v)
      [] v.k = "str" -> v.v
      [] v.k = "bool" -> (IF v.v THEN "true" ELSE "false")
      [] v.k = "list" -> "[" \o join_strings(v.v, 1, ", ") \o "]"
      [] OTHER -> "<unknown>"

is_list_value(v) == v.k = "list"

value_is_true(v) ==
    CASE v.k = "nil" -> FALSE
      [] v.k = "bool" -> v.v
      [] v.k = "int" -> v.v # 0
      [] v.k = "float" -> v.v.n # 0
      [] v.k = "str" -> v.v # ""
      [] v.k = "list" -> v.v # <<>>
      [] OTHER -> FALSE

\* the whole numbers the numeral strings of the model denote
Numerals == -9..9

\* std::stod: skips leading white space and converts the longest prefix that
\* is a number; the strings of the model that have such a prefix are a
\* numeral, a numeral after a space and a numeral followed by the letter x.
\* The result is the set of numbers the conversion yields: empty when
\* std::stod throws
stod(s) ==
    {i \in Numerals : s \in {ToString(i), " " \o ToString(i), ToString(i) \o "x"}}

\* value_as_number: Int64 and Float64 convert; a String converts when
\* std::stod accepts it; every other value throws "Value is not numeric".
is_numeric(v) ==
    \/ v.k \in {"int", "float"}
    \/ v.k = "str" /\ stod(v.v) # {}
value_as_number(v) ==
    CASE v.k = "int" -> to_double(v.v)
      [] v.k = "float" -> v.v
      [] v.k = "str" -> to_double(CHOOSE i \in stod(v.v) : TRUE)

(***************************************************************************)
(* Errors: every throw in the sources is a std::runtime_error.             *)
(***************************************************************************)
NoErr == [type |-> "none", msg |-> "", name |-> "", line |-> 0]
RuntimeError(m, n) == [type |-> "runtime_error", msg |-> m, name |-> n, line |-> 0]
ParseError(m, l) == [type |-> "runtime_error", msg |-> m, name |-> "", line |-> l]

(***************************************************************************)
(* Identifiers of the modelled programs.                                   *)
(***************************************************************************)
Constants == {"true", "false", "None"}
Builtins == {"print", "range", "len", "str", "int", "float", "append"}
Names == Constants \cup Builtins \cup
         {"nil", "x", "y", "f", "g", "a", "count", "m", "bad", "boom", "except"}

Marker(b) == make_str("__builtin_" \o b)

(***************************************************************************)
(* Environment (env.hpp; interpreter.cpp 76-97).  The heap of Environment  *)
(* objects is a sequence; a shared_ptr<Environment> is an index into it,   *)
(* nullptr is 0.  vars maps every name to a Value or to Unbound.           *)
(***************************************************************************)
EmptyVars == [n \in Names |-> Unbound]
Environment(parent_) == [parent |-> parent_, vars |-> EmptyVars]

\* faulty variant: lookup from the root inwards: the outermost binding wins
RECURSIVE get_outermost(_, _, _)
get_outermost(E, e, name) ==
    LET up == IF E[e].parent # 0 THEN get_outermost(E, E[e].parent, name) ELSE Unbound IN
    IF up # Unbound THEN up ELSE E[e].vars[name]

RECURSIVE get(_, _, _)
get(E, e, name) ==
    IF E[e].vars[name] # Unbound THEN E[e].vars[name]
    ELSE IF E[e].parent # 0 THEN get(E, E[e].parent, name)
    ELSE Unbound

\* faulty variant: assignment that rebinds the nearest enclosing binding of the name
\* when there is one (implicit outer-scope mutation)
RECURSIVE binder(_, _, _)
binder(E, e, name) ==
    IF E[e].vars[name] # Unbound THEN e
    ELSE IF E[e].parent # 0 THEN binder(E, E[e].parent, name)
    ELSE 0

set_outer(E, e, name, val) ==
    LET b == IF binder(E, e, name) # 0 THEN binder(E, e, name) ELSE e IN
    IF name \in Constants /\ E[b].vars[name] # Unbound
    THEN [err |-> RuntimeError("Cannot reassign constant", name), envs |-> E]
    ELSE [err |-> NoErr, envs |-> [E EXCEPT ![b].vars[name] = val]]

\* Environment::set: the result is the new heap, or the error thrown
set(E, e, name, val) ==
    IF name \in Constants /\ E[e].vars[name] # Unbound
    THEN [err |-> RuntimeError("Cannot reassign constant", name), envs |-> E]
    ELSE [err |-> NoErr, envs |-> [E EXCEPT ![e].vars[name] = val]]

(***************************************************************************)
(* Source lines.  A line is its leading whitespace (sp spaces, tab tabs)   *)
(* and its text, given by the lexical form parse_block recognises and the  *)
(* pieces it cuts out of it.  Expression texts are kept as terms:          *)
(*   [k |-> "lit", v]   a number or string literal                         *)
(*   [k |-> "list", elems]  a list literal [e1, e2]                        *)
(*   [k |-> "id", name]  an identifier                                     *)
(*   [k |-> "call", name, args]  an identifier followed by (args)          *)
(***************************************************************************)
Lit(v) == [k |-> "lit", v |-> v]
ListOf(es) == [k |-> "list", elems |-> es]
Id(n) == [k |-> "id", name |-> n]
Call(n, as) == [k |-> "call", name |-> n, args |-> as]
\* expression text whose longest prefix the grammar accepts is the text of x
\* and is followed by the characters `rest` (a second operand, a comparison
\* operator, a stray bracket)
Trail(x, rest) == [k |-> "trail", head |-> x, rest |-> rest]
\* the operands l and r joined by the binary operator op, grouped as the
\* grammar groups them (expr: + -, term: * / %, power: ^, all left to right)
Bin(op, l, r) == [k |-> "bin", op |-> op, l |-> l, r |-> r]
\* the primary b followed by the subscript suffix [i]
Index(b, i) == [k |-> "index", base |-> b, idx |-> i]

indent_level(line) == line.sp + TabWidth * line.tab

\* ltrim(raw_line).empty() || ltrim(raw_line).rfind("#",0)==0
is_skipped(line) == line.form \in {"blank", "comment"}

(***************************************************************************)
(* AST nodes (ast.hpp).  `line` is the 1-based number of the source line   *)
(* the node was built from; it identifies the node in the histories.       *)
(***************************************************************************)
Say(l, e) == [kind |-> "Say", line |-> l, expr |-> e]
Ask(l, p, v) == [kind |-> "Ask", line |-> l, prompt |-> p, var |-> v]
Assign(l, n, e) == [kind |-> "Assign", line |-> l, name |-> n, expr |-> e]
If(l, c, t, e) == [kind |-> "If", line |-> l, cond |-> c, then_block |-> t, else_block |-> e]
Repeat(l, t, b) == [kind |-> "Repeat", line |-> l, times_expr |-> t, block |-> b]
FunctionDef(l, n, p, b) == [kind |-> "FunctionDef", line |-> l, name |-> n, params |-> p, block |-> b]
FunctionCall(l, n, a) == [kind |-> "FunctionCall", line |-> l, name |-> n, args |-> a]
Return(l) == [kind |-> "Return", line |-> l]
Import(l, n) == [kind |-> "Import", line |-> l, name |-> n]
ExprStmt(l, e) == [kind |-> "ExprStmt", line |-> l, expr |-> e]
While(l, c, b) == [kind |-> "While", line |-> l, cond |-> c, block |-> b]
Break(l) == [kind |-> "Break", line |-> l]
Continue(l) == [kind |-> "Continue", line |-> l]
ForIn(l, v, it, b) == [kind |-> "ForIn", line |-> l, var |-> v, iterable |-> it, block |-> b]
TryExcept(l, t, e) == [kind |-> "TryExcept", line |-> l, try_block |-> t, except_block |-> e]

(***************************************************************************)
(* parse_block (parser.cpp 33-224).  idx is 0-based as in the source; the  *)
(* result is the node list, the next index, and the error thrown if any.   *)
(***************************************************************************)
Parsed(nodes, next) == [nodes |-> nodes, next |-> next, err |-> NoErr]
Failed(nodes, next, e) == [nodes |-> nodes, next |-> next, err |-> e]

\* the parameter text between '(' and the last character of the header:
\* header.substr(pos+1, header.size()-pos-2) drops the last character
\* whatever it is; with one-letter parameter names a header without ')'
\* loses its last parameter.
header_params(line) ==
    IF line.close \/ line.params = <<>> THEN line.params
    ELSE SubSeq(line.params, 1, Len(line.params) - 1)

RECURSIVE parse_block(_, _, _)
RECURSIVE parse_stmts(_, _, _, _)
RECURSIVE parse_elif(_, _, _, _)

\* the while loop of lines 87-110: the else_block and the index after the chain
parse_elif(lines, curr_next, base_indent, else_block) ==
    IF ~(curr_next < Len(lines) /\ indent_level(lines[curr_next + 1]) = base_indent)
    THEN Parsed(else_block, curr_next)
    ELSE LET t == lines[curr_next + 1] IN
         IF t.form = "else"
         THEN parse_block(lines, curr_next + 1, base_indent + IndentStep)
         ELSE IF t.form = "elif"
         THEN LET r == parse_block(lines, curr_next + 1, base_indent + IndentStep) IN
              IF r.err # NoErr THEN r
              ELSE parse_elif(lines, r.next, base_indent,
                              << If(curr_next + 1, t.cond, r.nodes, <<>>) >>)
         ELSE Parsed(else_block, curr_next)

\* one iteration of the while loop of line 36, with the nodes built so far
parse_stmts(lines, idx, base_indent, nodes) ==
    IF ~(idx < Len(lines)) THEN Parsed(nodes, idx)
    ELSE
    LET line == lines[idx + 1]
        n == idx + 1
        sub == parse_block(lines, idx + 1, base_indent + IndentStep)
        \* a nested block, then the statement built from it
        nested(node) ==
            IF sub.err # NoErr THEN Failed(nodes, sub.next, sub.err)
            ELSE parse_stmts(lines, sub.next, base_indent, Append(nodes, node))
        simple(node) == parse_stmts(lines, idx + 1, base_indent, Append(nodes, node))
    IN
    IF is_skipped(line) THEN parse_stmts(lines, idx + 1, base_indent, nodes)
    ELSE IF indent_level(line) < base_indent THEN Parsed(nodes, idx)
    ELSE IF indent_level(line) > base_indent
         THEN Failed(nodes, idx, ParseError("Unexpected indent", n))
    ELSE CASE line.form = "say" -> simple(Say(n, line.expr))
      [] line.form = "ask" ->
            IF ~line.arrow THEN Failed(nodes, idx, ParseError("Invalid ask syntax", n))
            ELSE simple(Ask(n, line.prompt, line.var))
      [] line.form = "import" -> simple(Import(n, line.name))
      [] line.form = "return" -> simple(Return(n))
      [] line.form = "if" ->
            IF sub.err # NoErr THEN Failed(nodes, sub.next, sub.err)
            ELSE LET r == parse_elif(lines, sub.next, base_indent, <<>>) IN
                 IF r.err # NoErr THEN Failed(nodes, r.next, r.err)
                 ELSE parse_stmts(lines, r.next, base_indent,
                                  Append(nodes, If(n, line.cond, sub.nodes, r.nodes)))
      [] line.form = "repeat" -> nested(Repeat(n, line.expr, sub.nodes))
      [] line.form = "function" ->
            IF ~line.open THEN Failed(nodes, idx, ParseError("Invalid function header", n))
            ELSE nested(FunctionDef(n, line.name, header_params(line), sub.nodes))
      [] line.form = "else" -> Failed(nodes, idx, ParseError("Unexpected 'else:'", n))
      [] line.form = "while" -> nested(While(n, line.cond, sub.nodes))
      [] line.form = "break" -> simple(Break(n))
      [] line.form = "continue" -> simple(Continue(n))
      [] line.form = "for" -> nested(ForIn(n, line.var, line.expr, sub.nodes))
      [] line.form = "try" ->
            IF sub.err # NoErr THEN Failed(nodes, sub.next, sub.err)
            ELSE IF /\ sub.next < Len(lines)
                    /\ indent_level(lines[sub.next + 1]) = base_indent
                    \* lines[next_idx] == "except:" compares the raw line,
                    \* leading whitespace included
                    /\ lines[sub.next + 1].form = "except"
                    /\ lines[sub.next + 1].sp = 0 /\ lines[sub.next + 1].tab = 0
                 THEN LET r == parse_block(lines, sub.next + 1, base_indent + IndentStep) IN
                      IF r.err # NoErr THEN Failed(nodes, r.next, r.err)
                      ELSE parse_stmts(lines, r.next, base_indent,
                                       Append(nodes, TryExcept(n, sub.nodes, r.nodes)))
                 ELSE parse_stmts(lines, sub.next, base_indent,
                                  Append(nodes, TryExcept(n, sub.nodes, <<>>)))
      [] line.form = "assign" -> simple(Assign(n, line.name, line.expr))
      [] line.form = "call" -> simple(FunctionCall(n, line.name, line.args))
      \* fallback: the whole line is an expression; of an `elif ...:` or
      \* `except:` line the evaluator reads the leading identifier
      [] line.form = "elif" -> simple(ExprStmt(n, Id("elif")))
      [] line.form = "except" -> simple(ExprStmt(n, Id("except")))
      [] OTHER -> simple(ExprStmt(n, line.expr))

\* faulty variant: the line that ends a block is consumed with it
parse_block_eat(lines, start_idx, base_indent) ==
    LET r == parse_stmts(lines, start_idx, base_indent, <<>>) IN
    IF r.err = NoErr /\ r.next < Len(lines) THEN [r EXCEPT !.next = r.next + 1] ELSE r

parse_block(lines, start_idx, base_indent) == parse_stmts(lines, start_idx, base_indent, <<>>)

(***************************************************************************)
(* The expression evaluator (interpreter.cpp 151-459), on the expression   *)
(* forms above.  An evaluation ends in a value, in a thrown error, or at   *)
(* the call of a user function (lines 342-360), which the executor carries *)
(* out as a frame of its own; `prints` is what the builtin print wrote on  *)
(* the way.  A user call is modelled where it is the whole expression of a *)
(* Say, Assign, ExprStmt or FunctionCall statement.                        *)
(***************************************************************************)
Val(v, p) == [tag |-> "value", val |-> v, err |-> NoErr, prints |-> p, name |-> "", args |-> <<>>]
Err(e, p) == [tag |-> "err", val |-> Nil, err |-> e, prints |-> p, name |-> "", args |-> <<>>]
UserCall(n, a, p) == [tag |-> "user", val |-> Nil, err |-> NoErr, prints |-> p, name |-> n, args |-> a]
\* lines 370-375: `list` refers to the vector held by base_val, and
\* `base_val = list[idx]` assigns base_val from an element of that vector.
\* The assignment destroys the vector before it copies the element, so the
\* copy reads storage that has been released; v is the element that was
\* stored there
Dangling(v, p) == [tag |-> "dangling", val |-> v, err |-> NoErr, prints |-> p, name |-> "", args |-> <<>>]
\* what the released storage of an integer element can hold when it is read
StaleWords == {0, 4242}
\* the values the read of a released element can yield: the element, if the
\* storage has not been reused, or whatever was written over it (the tag of
\* a bool element lies past the bytes the allocator overwrites, so its read
\* stays a bool, of either truth value)
StaleReads(v) ==
    IF v.k = "bool" THEN {make_bool(TRUE), make_bool(FALSE)}
    ELSE {v} \cup {make_int(w) : w \in StaleWords}

\* lines 260-262: the evaluator's literal path for the three constant names
literal_of(id) ==
    CASE id = "true" -> make_bool(TRUE)
      [] id = "false" -> make_bool(FALSE)
      [] id = "None" -> Nil

is_literal_name(id) == id \in {"true", "false", "None"}

\* faulty variant: the loop runs up to and including stop
range_list_inclusive(start, stop) ==
    IF start <= stop THEN [i \in 1..(stop - start + 1) |-> make_int(start + i - 1)] ELSE <<>>

\* for (int64_t i = start; i < stop; ++i) list.push_back(make_int(i))
range_list(start, stop) ==
    IF start < stop THEN [i \in 1..(stop - start) |-> make_int(start + i - 1)] ELSE <<>>

\* lines 283-340: the builtin a marker string dispatches to
builtin(marker, args) ==
    CASE marker = "__builtin_print" ->
            Val(Nil, << join_strings(args, 1, " ") >>)
      [] marker = "__builtin_range" ->
            IF Len(args) # 2 THEN Err(RuntimeError("range() requires 2 arguments", ""), <<>>)
            ELSE IF ~is_numeric(args[1]) \/ ~is_numeric(args[2])
                 THEN Err(RuntimeError("Value is not numeric", ""), <<>>)
            ELSE Val(make_list(range_list(to_int64(value_as_number(args[1])),
                                           to_int64(value_as_number(args[2])))), <<>>)
      [] marker = "__builtin_len" ->
            IF Len(args) # 1 THEN Err(RuntimeError("len() requires 1 argument", ""), <<>>)
            ELSE IF args[1].k \in {"str", "list"} THEN Val(make_int(Len(args[1].v)), <<>>)
            ELSE Err(RuntimeError("len() argument must be string or list", ""), <<>>)
      [] marker = "__builtin_str" ->
            IF Len(args) # 1 THEN Err(RuntimeError("str() requires 1 argument", ""), <<>>)
            ELSE Val(make_str(value_to_string(args[1])), <<>>)
      [] marker = "__builtin_int" ->
            IF Len(args) # 1 THEN Err(RuntimeError("int() requires 1 argument", ""), <<>>)
            ELSE IF ~is_numeric(args[1]) THEN Err(RuntimeError("Value is not numeric", ""), <<>>)
            ELSE Val(make_int(to_int64(value_as_number(args[1]))), <<>>)
      [] marker = "__builtin_float" ->
            IF Len(args) # 1 THEN Err(RuntimeError("float() requires 1 argument", ""), <<>>)
            ELSE IF ~is_numeric(args[1]) THEN Err(RuntimeError("Value is not numeric", ""), <<>>)
            ELSE Val(make_double(value_as_number(args[1])), <<>>)
      [] marker = "__builtin_append" ->
            IF Len(args) # 2
            THEN Err(RuntimeError("append() requires 2 arguments (list, value)", ""), <<>>)
            ELSE IF ~is_list_value(args[1])
                 THEN Err(RuntimeError("First argument to append() must be a list", ""), <<>>)
            ELSE Val(make_list(Append(args[1].v, args[2])), <<>>)

is_marker(v) == v.k = "str" /\ v.v \in {Marker(b).v : b \in Builtins}

\* faulty variant: the name of the call selects the builtin, whatever it is
\* bound to
dispatch_by_name(id, base_val) == IF id \in Builtins THEN Marker(id).v ELSE ""

\* lines 283-340: the call looks at the value the name resolved to, and a
\* string equal to a marker selects that builtin ("": none is selected)
dispatch(id, base_val) == IF is_marker(base_val) THEN base_val.v ELSE ""

RECURSIVE parse_primary(_, _, _)
RECURSIVE parse_args(_, _, _, _, _, _)

\* the argument (or list element) loop: expressions xs from i on, left to
\* right, stopping at the first error
parse_args(E, env, xs, i, vals, prints) ==
    IF i > Len(xs) THEN Val(make_list(vals), prints)
    ELSE LET r == parse_primary(E, env, xs[i]) IN
         IF r.tag # "value" THEN Err(r.err, prints \o r.prints)
         ELSE parse_args(E, env, xs, i + 1, Append(vals, r.val), prints \o r.prints)

parse_primary(E, env, x) ==
    CASE x.k = "lit" -> Val(x.v, <<>>)
      [] x.k = "list" -> parse_args(E, env, x.elems, 1, <<>>, <<>>)
      [] x.k = "id" ->
            IF is_literal_name(x.name) THEN Val(literal_of(x.name), <<>>)
            ELSE IF get(E, env, x.name) = Unbound
                 THEN Err(RuntimeError("Name is not defined", x.name), <<>>)
            ELSE Val(get(E, env, x.name), <<>>)
      [] x.k = "call" ->
            \* the literal names return before the call suffix is read
            IF is_literal_name(x.name) THEN Val(literal_of(x.name), <<>>)
            ELSE LET base_val == get(E, env, x.name)
                     a == parse_args(E, env, x.args, 1, <<>>, <<>>)
                 IN
                 IF base_val = Unbound
                 THEN Err(RuntimeError("Name is not defined", x.name), <<>>)
                 ELSE IF a.tag # "value" THEN a
                 ELSE IF dispatch(x.name, base_val) # ""
                      THEN LET b == builtin(dispatch(x.name, base_val), a.val.v) IN
                           [b EXCEPT !.prints = a.prints \o b.prints]
                 ELSE UserCall(x.name, a.val.v, a.prints)
      [] x.k = "index" ->
            \* the literal names return before the subscript suffix is read
            IF x.base.k = "id" /\ is_literal_name(x.base.name)
            THEN Val(literal_of(x.base.name), <<>>)
            ELSE LET b == parse_primary(E, env, x.base) IN
                 IF b.tag # "value" THEN b
                 ELSE IF ~is_list_value(b.val)
                      THEN Err(RuntimeError("Object is not subscriptable (not a list)", ""), b.prints)
                 ELSE LET i == parse_primary(E, env, x.idx) IN
                      IF i.tag # "value" THEN [i EXCEPT !.prints = b.prints \o i.prints]
                      ELSE IF ~is_numeric(i.val)
                           THEN Err(RuntimeError("Value is not numeric", ""), b.prints \o i.prints)
                      ELSE IF \/ to_int64(value_as_number(i.val)) < 0
                              \/ to_int64(value_as_number(i.val)) >= Len(b.val.v)
                           THEN Err(RuntimeError("List index out of range", ""), b.prints \o i.prints)
                      ELSE Dangling(b.val.v[to_int64(value_as_number(i.val)) + 1],
                                    b.prints \o i.prints)

\* double arithmetic (exact on the numbers of the model)
add(a, b) == Rat(a.n * b.d + b.n * a.d, a.d * b.d)
sub(a, b) == Rat(a.n * b.d - b.n * a.d, a.d * b.d)
mul(a, b) == Rat(a.n * b.n, a.d * b.d)
\* a / b for b # 0
div(a, b) == Rat(a.n * b.d, a.d * b.n)
\* std::fmod(a, b) for b # 0: a - b * trunc(a / b), the sign of a
fmod(a, b) == sub(a, mul(b, to_double(to_int64(div(a, b)))))
\* i to the power n >= 0 (the power 0 of every number is 1)
RECURSIVE ipow(_, _)
ipow(i, n) == IF n = 0 THEN 1 ELSE i * ipow(i, n - 1)
\* std::pow(a, b) for a whole exponent b (and a # 0 when b < 0)
pow(a, b) ==
    IF b.n >= 0 THEN Rat(ipow(a.n, b.n), ipow(a.d, b.n))
    ELSE Rat(ipow(a.d, 0 - b.n), ipow(a.n, 0 - b.n))

NotNumeric == Err(RuntimeError("Value is not numeric", ""), <<>>)

\* faulty variant: `/` that keeps the whole part of the quotient
parse_term_truncating(op, left, right) ==
    IF ~is_numeric(left) \/ ~is_numeric(right) THEN NotNumeric
    ELSE LET a == value_as_number(left)
             b == value_as_number(right)
         IN CASE op = "*" -> Val(make_double(mul(a, b)), <<>>)
              [] op = "/" -> IF b.n = 0 THEN Err(RuntimeError("Division by zero", ""), <<>>)
                             ELSE Val(make_double(to_double(to_int64(div(a, b)))), <<>>)
              [] op = "%" -> IF b.n = 0 THEN Err(RuntimeError("Modulo by zero", ""), <<>>)
                             ELSE Val(make_double(fmod(a, b)), <<>>)

\* faulty variant: `+` that puts the string operand first
parse_expr_string_first(op, left, right) ==
    IF op = "+" /\ (left.k = "str" \/ right.k = "str")
    THEN IF left.k = "str"
         THEN Val(make_str(value_to_string(left) \o value_to_string(right)), <<>>)
         ELSE Val(make_str(value_to_string(right) \o value_to_string(left)), <<>>)
    ELSE IF ~is_numeric(left) \/ ~is_numeric(right) THEN NotNumeric
    ELSE IF op = "+"
         THEN Val(make_double(add(value_as_number(left), value_as_number(right))), <<>>)
    ELSE Val(make_double(sub(value_as_number(left), value_as_number(right))), <<>>)

\* parse_power, the body of its loop (lines 391-394): left ^ right
parse_power(left, right) ==
    IF ~is_numeric(left) \/ ~is_numeric(right) THEN NotNumeric
    ELSE Val(make_double(pow(value_as_number(left), value_as_number(right))), <<>>)

\* parse_term, the body of its loop (lines 405-417): left op right for op
\* one of * / %
parse_term(op, left, right) ==
    IF ~is_numeric(left) \/ ~is_numeric(right) THEN NotNumeric
    ELSE LET a == value_as_number(left)
             b == value_as_number(right)
         IN CASE op = "*" -> Val(make_double(mul(a, b)), <<>>)
              [] op = "/" -> IF b.n = 0 THEN Err(RuntimeError("Division by zero", ""), <<>>)
                             ELSE Val(make_double(div(a, b)), <<>>)
              [] op = "%" -> IF b.n = 0 THEN Err(RuntimeError("Modulo by zero", ""), <<>>)
                             ELSE Val(make_double(fmod(a, b)), <<>>)

\* parse_expr, the body of its loop (lines 430-445): left op right for op
\* one of + -
parse_expr(op, left, right) ==
    IF op = "+" /\ (left.k = "str" \/ right.k = "str")
    THEN Val(make_str(value_to_string(left) \o value_to_string(right)), <<>>)
    ELSE IF ~is_numeric(left) \/ ~is_numeric(right) THEN NotNumeric
    ELSE IF op = "+"
         THEN Val(make_double(add(value_as_number(left), value_as_number(right))), <<>>)
    ELSE Val(make_double(sub(value_as_number(left), value_as_number(right))), <<>>)

\* the value of an expression tree: the left operand, then the right one,
\* then the operator; an operand that raises ends the evaluation
RECURSIVE parse_expression(_, _, _)
parse_expression(E, env, x) ==
    IF x.k # "bin" THEN parse_primary(E, env, x)
    ELSE LET l == parse_expression(E, env, x.l) IN
         IF l.tag # "value" THEN l
         ELSE LET r == parse_expression(E, env, x.r) IN
              IF r.tag # "value" THEN [r EXCEPT !.prints = l.prints \o r.prints]
              ELSE LET v == CASE x.op = "^" -> parse_power(l.val, r.val)
                              [] x.op \in {"*", "/", "%"} -> parse_term(x.op, l.val, r.val)
                              [] x.op \in {"+", "-"} -> parse_expr(x.op, l.val, r.val)
                   IN [v EXCEPT !.prints = l.prints \o r.prints]

\* Interpreter::eval_expr: trim, then parse_expression, which returns what
\* p.parse_expr() returns without looking at what is left of the text
eval_expr(E, env, expr) ==
    parse_expression(E, env, IF expr.k = "trail" THEN expr.head ELSE expr)

(***************************************************************************)
(* The interpreter (interpreter.hpp; interpreter.cpp 100-134, 461-575).    *)
(***************************************************************************)
VARIABLES
    envs,      \* the heap of Environment objects
    interps,   \* the live Interpreter objects: the session's, then one per import in progress
    stack,     \* the activations of execute_block, outermost first
    out,       \* std::cout, one entry per write
    err,       \* std::cerr, one entry per error run() reported
    source,    \* the code and label of the latest run() call
    runs,      \* number of run() calls so far
    steps,     \* transitions of the latest run()
    raised,    \* an exception left run()
    hist       \* history: the statements executed, in order

vars == <<envs, interps, stack, out, err, source, runs, steps, raised, hist>>

Last(s) == s[Len(s)]
Front(s) == SubSeq(s, 1, Len(s) - 1)

\* a std::unordered_map as a function on its keys
NoEntries == << >>
Put(map, key, val) == [n \in DOMAIN map \cup {key} |-> IF n = key THEN val ELSE map[n]]

RECURSIVE set_all(_, _, _, _, _)
\* successive set(names[i], vals[i]) on one environment, stopping at the first throw
set_all(E, e, names, vals, i) ==
    IF i > Len(names) THEN [err |-> NoErr, envs |-> E]
    ELSE LET r == set(E, e, names[i], vals[i]) IN
         IF r.err # NoErr THEN r ELSE set_all(r.envs, e, names, vals, i + 1)

\* Interpreter::Interpreter: a new global environment with the constants and
\* the builtin markers, empty tables
CtorNames == <<"None", "true", "false", "print", "range", "len", "str", "int", "float", "append">>
CtorValues == <<Nil, make_bool(TRUE), make_bool(FALSE), Marker("print"), Marker("range"),
                Marker("len"), Marker("str"), Marker("int"), Marker("float"), Marker("append")>>

Interpreter(E, stdlib_path_) ==
    LET g == Len(E) + 1
        r == set_all(Append(E, Environment(0)), g, CtorNames, CtorValues, 1)
    IN [envs |-> r.envs,
        interp |-> [global_env |-> g, functions |-> NoEntries,
                    loaded_modules |-> NoEntries, stdlib_path |-> stdlib_path_]]

\* one activation of execute_block(block, env) by interpreter `interp`.
\* kind says who called it; j, times, items are the caller's loop state;
\* snap is the heap when the activation began (history).
Frame(kind, block, env, interp, j, times, items, E) ==
    [kind |-> kind, block |-> block, idx |-> 1, env |-> env, interp |-> interp,
     j |-> j, times |-> times, items |-> items, snap |-> E]

Top == Last(stack)
Running == stack # << >> /\ steps < MaxSteps
AtNode == Running /\ Top.idx <= Len(Top.block)
AtEnd == Running /\ Top.idx > Len(Top.block)
Node == Top.block[Top.idx]

Advance(stk) == [stk EXCEPT ![Len(stk)].idx = @ + 1]

\* std::make_shared<Environment>(parent): the new heap; the new index is its length
NewEnv(E, parent) == Append(E, Environment(parent))

\* run() catches std::exception, the base of every error thrown
run_catches(e) == e.type = "runtime_error"

\* faulty variant: an uncaught error abandons the innermost activation only and the
\* enclosing block goes on with its next statement
Unwind_inner(stk, E, I) ==
    IF Len(stk) <= 1 THEN [stack |-> << >>, envs |-> E, interps |-> I, uncaught |-> TRUE]
    ELSE [stack |-> Advance(Front(stk)), envs |-> E,
          interps |-> IF Last(stk).kind = "module" THEN Front(I) ELSE I,
          uncaught |-> TRUE]

\* faulty variant: a TryExcept with an empty except-block swallows the error
RECURSIVE Unwind_swallow(_, _, _)
Unwind_swallow(stk, E, I) ==
    IF stk = << >> THEN [stack |-> << >>, envs |-> E, interps |-> I, uncaught |-> TRUE]
    ELSE LET F == Last(stk)
             rest == Front(stk)
         IN
         IF F.kind = "try"
         THEN LET P == Last(rest)
                  te == P.block[P.idx]
                  E2 == NewEnv(E, P.env)
              IN IF te.except_block # << >>
                 THEN [stack |-> Append(rest, Frame("except", te.except_block, Len(E2),
                                                    P.interp, 0, 0, << >>, E)),
                       envs |-> E2, interps |-> I, uncaught |-> FALSE]
                 ELSE [stack |-> Advance(rest), envs |-> E, interps |-> I, uncaught |-> FALSE]
         ELSE IF F.kind = "module" THEN Unwind_swallow(rest, E, Front(I))
         ELSE Unwind_swallow(rest, E, I)

RECURSIVE Unwind(_, _, _)
\* an exception propagating out of the top activation of stk: it leaves every
\* activation up to the nearest try-block whose TryExcept has a non-empty
\* except-block (lines 558-567), which then runs in a new child scope; a
\* module activation it leaves destroys its mod_interp
Unwind(stk, E, I) ==
    IF stk = << >> THEN [stack |-> << >>, envs |-> E, interps |-> I, uncaught |-> TRUE]
    ELSE LET F == Last(stk)
             rest == Front(stk)
         IN
         IF F.kind = "try" /\ Last(rest).block[Last(rest).idx].except_block # << >>
         THEN LET P == Last(rest)
                  te == P.block[P.idx]
                  E2 == NewEnv(E, P.env)
              IN [stack |-> Append(rest, Frame("except", te.except_block, Len(E2),
                                               P.interp, 0, 0, << >>, E)),
                  envs |-> E2, interps |-> I, uncaught |-> FALSE]
         ELSE IF F.kind = "module" THEN Unwind(rest, E, Front(I))
         ELSE Unwind(rest, E, I)

\* a history entry: statement number idx of the activation on env began
Event(node, env, idx) ==
    [run |-> runs, line |-> node.line, kind |-> node.kind, env |-> env, idx |-> idx]

\* what run() writes to std::cerr: e.what() and the label; run and at date
\* the report in the history
Report(e, label, run, at) ==
    [msg |-> e.msg, name |-> e.name, line |-> e.line, file |-> label, run |-> run, at |-> at]

\* the transition to a configuration, and the transition of a throw
Goto(stk, E, I, o) ==
    /\ stack' = stk /\ envs' = E /\ interps' = I /\ out' = o
    /\ UNCHANGED <<err, raised>>

\* faulty variant: an error that leaves run() restores the environments to
\* what they were when the run began
ThrowWith_rollback(stk, e, E, I, o) ==
    LET u == Unwind(stk, E, I)
        E0 == stk[1].snap
    IN
    /\ stack' = u.stack /\ interps' = u.interps /\ out' = o
    /\ envs' = IF u.uncaught
               THEN [i \in DOMAIN u.envs |-> IF i \in DOMAIN E0 THEN E0[i] ELSE u.envs[i]]
               ELSE u.envs
    /\ err' = IF u.uncaught /\ run_catches(e)
              THEN Append(err, Report(e, source.label, runs, Len(hist')))
              ELSE err
    /\ raised' = (raised \/ (u.uncaught /\ ~run_catches(e)))

ThrowWith(stk, e, E, I, o) ==
    LET u == Unwind(stk, E, I) IN
    /\ stack' = u.stack /\ envs' = u.envs /\ interps' = u.interps /\ out' = o
    /\ err' = IF u.uncaught /\ run_catches(e)
              THEN Append(err, Report(e, source.label, runs, Len(hist')))
              ELSE err
    /\ raised' = (raised \/ (u.uncaught /\ ~run_catches(e)))

ThrowFrom(stk, e, E, o) == ThrowWith(stk, e, E, interps, o)
Throw(e, E, o) == ThrowFrom(stack, e, E, o)

\* a statement begins: one more step, one more history entry
Begin == /\ steps' = steps + 1
         /\ hist' = Append(hist, Event(Node, Top.env, Top.idx))
         /\ UNCHANGED <<source, runs>>
\* an activation ends
Finish == /\ steps' = steps + 1
          /\ UNCHANGED <<source, runs, hist>>

\* faulty variant: dynamic scoping: the call environment hangs off the caller's
call_parent_caller(entry, caller_env) == caller_env

\* line 352: the parent of call_env is the environment captured at definition
call_parent(entry, caller_env) == entry.def_env

\* faulty variant: only too few arguments are refused, surplus ones are dropped
Invoke_surplus(r, o) ==
    LET functions == interps[Top.interp].functions IN
    IF r.name \notin DOMAIN functions
    THEN Throw(RuntimeError("is not callable", r.name), envs, o)
    ELSE LET entry == functions[r.name] IN
         IF Len(entry.params) > Len(r.args)
         THEN Throw(RuntimeError("Function expects a different number of arguments", r.name),
                    envs, o)
         ELSE LET E1 == NewEnv(envs, call_parent(entry, Top.env))
                  call_env == Len(E1)
                  b == set_all(E1, call_env, entry.params, r.args, 1)
              IN IF b.err # NoErr THEN Throw(b.err, b.envs, o)
                 ELSE Goto(Append(stack, Frame("call", entry.block, call_env, Top.interp,
                                                0, 0, << >>, envs)),
                           b.envs, interps, o)

\* lines 342-357: the call of user function r.name with argument values r.args
Invoke(r, o) ==
    LET functions == interps[Top.interp].functions IN
    IF r.name \notin DOMAIN functions
    THEN Throw(RuntimeError("is not callable", r.name), envs, o)
    ELSE LET entry == functions[r.name] IN
         IF Len(entry.params) # Len(r.args)
         THEN Throw(RuntimeError("Function expects a different number of arguments", r.name),
                    envs, o)
         ELSE LET E1 == NewEnv(envs, call_parent(entry, Top.env))
                  call_env == Len(E1)
                  b == set_all(E1, call_env, entry.params, r.args, 1)
              IN IF b.err # NoErr THEN Throw(b.err, b.envs, o)
                 ELSE Goto(Append(stack, Frame("call", entry.block, call_env, Top.interp,
                                                0, 0, << >>, envs)),
                           b.envs, interps, o)

(***************************************************************************)
(* execute_block, one action per node kind (lines 461-575).                *)
(***************************************************************************)
\* a statement whose expression may be a user call: what follows the value
\* (Say prints it, Assign binds it, a call or expression statement drops it)
Complete(stk, node, val, E, o) ==
    CASE node.kind = "Say" -> Goto(Advance(stk), E, interps, Append(o, value_to_string(val)))
      [] node.kind = "Assign" ->
            LET r == set(E, Last(stk).env, node.name, val) IN
            IF r.err # NoErr THEN ThrowFrom(stk, r.err, E, o)
            ELSE Goto(Advance(stk), r.envs, interps, o)
      [] OTHER -> Goto(Advance(stk), E, interps, o)

\* the expression of such a statement; FunctionCall rebuilds the call text
\* from its name and arguments (lines 512-519)
ExprOf(node) ==
    IF node.kind = "FunctionCall" THEN Call(node.name, node.args) ELSE node.expr

\* faulty variant: append pushes onto the list its first argument names
Evaluate_append_in_place(node) ==
    LET r == eval_expr(envs, Top.env, ExprOf(node))
        o == out \o r.prints
        x == ExprOf(node)
        E == IF x.k = "call" /\ x.name = "append" /\ r.tag = "value" /\ x.args[1].k = "id"
             THEN [envs EXCEPT ![binder(envs, Top.env, x.args[1].name)].vars[x.args[1].name] = r.val]
             ELSE envs
    IN CASE r.tag = "value" -> Complete(stack, node, r.val, E, o)
         [] r.tag = "err" -> Throw(r.err, envs, o)
         [] r.tag = "user" -> Invoke(r, o)
         [] r.tag = "dangling" ->
               \E v \in StaleReads(r.val) : Complete(stack, node, v, envs, o)

Evaluate(node) ==
    LET r == eval_expr(envs, Top.env, ExprOf(node))
        o == out \o r.prints
    IN CASE r.tag = "value" -> Complete(stack, node, r.val, envs, o)
         [] r.tag = "err" -> Throw(r.err, envs, o)
         [] r.tag = "user" -> Invoke(r, o)
         [] r.tag = "dangling" ->
               \E v \in StaleReads(r.val) : Complete(stack, node, v, envs, o)

ExecSay == AtNode /\ Node.kind = "Say" /\ Begin /\ Evaluate(Node)

ExecAssign == AtNode /\ Node.kind = "Assign" /\ Begin /\ Evaluate(Node)

ExecFunctionCall == AtNode /\ Node.kind = "FunctionCall" /\ Begin /\ Evaluate(Node)

ExecExprStmt == AtNode /\ Node.kind = "ExprStmt" /\ Begin /\ Evaluate(Node)

\* a line read from std::cin, with what std::stoll makes of it
Inputs == { [text |-> "7", is_int |-> TRUE, int |-> 7],
            [text |-> "hi", is_int |-> FALSE, int |-> 0] }

input_value(input) == IF input.is_int THEN make_int(input.int) ELSE make_str(input.text)

ExecAsk ==
    /\ AtNode /\ Node.kind = "Ask" /\ Begin
    /\ LET r == eval_expr(envs, Top.env, Node.prompt) IN
       /\ r.tag \in {"value", "err"}
       /\ IF r.tag = "err" THEN Throw(r.err, envs, out \o r.prints)
          ELSE \E input \in Inputs :
                 LET o == (out \o r.prints) \o << value_to_string(r.val) \o " " >>
                     b == set(envs, Top.env, Node.var, input_value(input))
                 IN IF b.err # NoErr THEN Throw(b.err, envs, o)
                    ELSE Goto(Advance(stack), b.envs, interps, o)

\* a nested block runs in std::make_shared<Environment>(env)
Enter(kind, block, o) ==
    LET E1 == NewEnv(envs, Top.env) IN
    Goto(Append(stack, Frame(kind, block, Len(E1), Top.interp, 0, 0, << >>, envs)),
         E1, interps, o)

ExecIf ==
    /\ AtNode /\ Node.kind = "If" /\ Begin
    /\ LET r == eval_expr(envs, Top.env, Node.cond)
           o == out \o r.prints
       IN /\ r.tag \in {"value", "err"}
          /\ IF r.tag = "err" THEN Throw(r.err, envs, o)
             ELSE IF value_is_true(r.val) THEN Enter("then", Node.then_block, o)
             ELSE IF Node.else_block # << >> THEN Enter("else", Node.else_block, o)
             ELSE Goto(Advance(stack), envs, interps, o)

\* faulty variant: count is the 0-based iteration number
RepeatIter_zero(stk, node, j, times, o) ==
    LET E1 == NewEnv(envs, Last(stk).env)
        b == set(E1, Len(E1), "count", make_int(j))
    IN IF b.err # NoErr THEN ThrowFrom(stk, b.err, E1, o)
       ELSE Goto(Append(stk, Frame("repeat", node.block, Len(E1), Last(stk).interp,
                                   j, times, << >>, envs)),
                 b.envs, interps, o)

\* iteration j (0-based) of a Repeat: a new loop_env with count = j + 1
RepeatIter(stk, node, j, times, o) ==
    LET E1 == NewEnv(envs, Last(stk).env)
        b == set(E1, Len(E1), "count", make_int(j + 1))
    IN IF b.err # NoErr THEN ThrowFrom(stk, b.err, E1, o)
       ELSE Goto(Append(stk, Frame("repeat", node.block, Len(E1), Last(stk).interp,
                                   j, times, << >>, envs)),
                 b.envs, interps, o)

ExecRepeat ==
    /\ AtNode /\ Node.kind = "Repeat" /\ Begin
    /\ LET r == eval_expr(envs, Top.env, Node.times_expr)
           o == out \o r.prints
       IN /\ r.tag \in {"value", "err"}
          /\ IF r.tag = "err" THEN Throw(r.err, envs, o)
             ELSE IF ~is_numeric(r.val)
                  THEN Throw(RuntimeError("Value is not numeric", ""), envs, o)
             ELSE IF to_int64(value_as_number(r.val)) < 0
                  THEN Throw(RuntimeError("repeat count must be non-negative", ""), envs, o)
             ELSE IF to_int64(value_as_number(r.val)) = 0
                  THEN Goto(Advance(stack), envs, interps, o)
             ELSE RepeatIter(stack, Node, 0, to_int64(value_as_number(r.val)), o)

EndRepeat ==
    /\ AtEnd /\ Top.kind = "repeat" /\ Finish
    /\ LET rest == Front(stack)
           node == Last(rest).block[Last(rest).idx]
       IN IF Top.j + 1 < Top.times
          THEN RepeatIter(rest, node, Top.j + 1, Top.times, out)
          ELSE Goto(Advance(rest), envs, interps, out)

ExecFunctionDef ==
    /\ AtNode /\ Node.kind = "FunctionDef" /\ Begin
    /\ LET entry == [params |-> Node.params, block |-> Node.block, def_env |-> Top.env] IN
       Goto(Advance(stack), envs,
            [interps EXCEPT ![Top.interp].functions = Put(@, Node.name, entry)], out)

\* the value of a finished user call (line 359)
call_result == Nil

EndCall ==
    /\ AtEnd /\ Top.kind = "call" /\ Finish
    /\ LET rest == Front(stack) IN
       Complete(rest, Last(rest).block[Last(rest).idx], call_result, envs, out)

\* faulty variant: a Return ends the block it stands in
ExecReturn_unwind ==
    /\ AtNode /\ Node.kind = "Return" /\ Begin
    /\ Goto([stack EXCEPT ![Len(stack)].idx = Len(Top.block) + 1], envs, interps, out)

\* lines 520-521: a Return node is ignored
ExecReturn ==
    /\ AtNode /\ Node.kind = "Return" /\ Begin
    /\ Goto(Advance(stack), envs, interps, out)

\* one evaluation of a While condition in the activation on top of stk
WhileIter(stk, node, o0) ==
    LET r == eval_expr(envs, Last(stk).env, node.cond)
        o == o0 \o r.prints
    IN /\ r.tag \in {"value", "err", "dangling"}
       /\ IF r.tag = "err" THEN ThrowFrom(stk, r.err, envs, o)
          ELSE \E cond \in (IF r.tag = "dangling" THEN StaleReads(r.val) ELSE {r.val}) :
               IF ~value_is_true(cond) THEN Goto(Advance(stk), envs, interps, o)
               ELSE LET E1 == NewEnv(envs, Last(stk).env) IN
                    Goto(Append(stk, Frame("while", node.block, Len(E1), Last(stk).interp,
                                           0, 0, << >>, envs)),
                         E1, interps, o)

ExecWhile == AtNode /\ Node.kind = "While" /\ Begin /\ WhileIter(stack, Node, out)

EndWhile ==
    /\ AtEnd /\ Top.kind = "while" /\ Finish
    /\ LET rest == Front(stack) IN WhileIter(rest, Last(rest).block[Last(rest).idx], out)

\* the iteration of a ForIn over items[j]: a new loop_env with var = items[j]
ForInIter(stk, node, j, items, o) ==
    LET E1 == NewEnv(envs, Last(stk).env)
        b == set(E1, Len(E1), node.var, items[j])
    IN IF b.err # NoErr THEN ThrowFrom(stk, b.err, E1, o)
       ELSE Goto(Append(stk, Frame("forin", node.block, Len(E1), Last(stk).interp,
                                   j, 0, items, envs)),
                 b.envs, interps, o)

ExecForIn ==
    /\ AtNode /\ Node.kind = "ForIn" /\ Begin
    /\ LET r == eval_expr(envs, Top.env, Node.iterable)
           o == out \o r.prints
       IN /\ r.tag \in {"value", "err"}
          /\ IF r.tag = "err" THEN Throw(r.err, envs, o)
             ELSE IF ~is_list_value(r.val)
                  THEN Throw(RuntimeError("For-in requires a list", ""), envs, o)
             ELSE IF r.val.v = << >> THEN Goto(Advance(stack), envs, interps, o)
             ELSE ForInIter(stack, Node, 1, r.val.v, o)

EndForIn ==
    /\ AtEnd /\ Top.kind = "forin" /\ Finish
    /\ LET rest == Front(stack)
           node == Last(rest).block[Last(rest).idx]
       IN IF Top.j < Len(Top.items)
          THEN ForInIter(rest, node, Top.j + 1, Top.items, out)
          ELSE Goto(Advance(rest), envs, interps, out)

ExecTryExcept ==
    /\ AtNode /\ Node.kind = "TryExcept" /\ Begin
    /\ Enter("try", Node.try_block, out)

\* the end of a then/else branch, of a try-block that threw nothing, or of
\* an except-block: the statement is done
EndBranch ==
    /\ AtEnd /\ Top.kind \in {"then", "else", "try", "except"} /\ Finish
    /\ Goto(Advance(Front(stack)), envs, interps, out)

\* lines 568-570: Break and Continue nodes match no branch of the executor
ExecUnknown ==
    /\ AtNode /\ Node.kind \in {"Break", "Continue"} /\ Begin
    /\ Throw(RuntimeError("Unknown AST node", ""), envs, out)

(***************************************************************************)
(* Sources: the programs handed to run() and the module files import       *)
(* reads.  Each line is written with its indentation in spaces.            *)
(***************************************************************************)
LSay(sp, e) == [sp |-> sp, tab |-> 0, form |-> "say", expr |-> e]
LAsk(sp, p, v, arrow) == [sp |-> sp, tab |-> 0, form |-> "ask", prompt |-> p, var |-> v, arrow |-> arrow]
LAssign(sp, n, e) == [sp |-> sp, tab |-> 0, form |-> "assign", name |-> n, expr |-> e]
LIf(sp, c) == [sp |-> sp, tab |-> 0, form |-> "if", cond |-> c]
LElif(sp, c) == [sp |-> sp, tab |-> 0, form |-> "elif", cond |-> c]
LElse(sp) == [sp |-> sp, tab |-> 0, form |-> "else"]
LRepeat(sp, e) == [sp |-> sp, tab |-> 0, form |-> "repeat", expr |-> e]
LFunction(sp, n, ps, open, close) ==
    [sp |-> sp, tab |-> 0, form |-> "function", name |-> n, params |-> ps,
     open |-> open, close |-> close]
LCall(sp, n, as) == [sp |-> sp, tab |-> 0, form |-> "call", name |-> n, args |-> as]
LReturn(sp) == [sp |-> sp, tab |-> 0, form |-> "return"]
LImport(sp, n) == [sp |-> sp, tab |-> 0, form |-> "import", name |-> n]
LWhile(sp, c) == [sp |-> sp, tab |-> 0, form |-> "while", cond |-> c]
LFor(sp, v, e) == [sp |-> sp, tab |-> 0, form |-> "for", var |-> v, expr |-> e]
LTry(sp) == [sp |-> sp, tab |-> 0, form |-> "try"]
LExcept(sp) == [sp |-> sp, tab |-> 0, form |-> "except"]
LBreak(sp) == [sp |-> sp, tab |-> 0, form |-> "break"]
LContinue(sp) == [sp |-> sp, tab |-> 0, form |-> "continue"]
LExpr(sp, e) == [sp |-> sp, tab |-> 0, form |-> "expr", expr |-> e]
LBlank == [sp |-> 0, tab |-> 0, form |-> "blank"]
LComment(sp) == [sp |-> sp, tab |-> 0, form |-> "comment"]
LTabSay(tab, e) == [sp |-> 0, tab |-> tab, form |-> "say", expr |-> e]

Num(i) == Lit(make_int(i))
Txt(t) == Lit(make_str(t))

\* x = 1 / if x: / x = 2 / say x / say x
SrcShadow == [label |-> "shadow", lines |-> <<
    LAssign(0, "x", Num(1)),
    LIf(0, Id("x")),
    LAssign(4, "x", Num(2)),
    LSay(4, Id("x")),
    LSay(0, Id("x")) >>]

\* try: / say y / say 1 / except: / x = 4 / say x / say 3
SrcTry == [label |-> "try", lines |-> <<
    LTry(0),
    LSay(4, Id("y")),
    LSay(4, Num(1)),
    LExcept(0),
    LAssign(4, "x", Num(4)),
    LSay(4, Id("x")),
    LSay(0, Num(3)) >>]

\* try: / say 1 / except: / say 2
SrcTryOk == [label |-> "tryok", lines |-> <<
    LTry(0),
    LSay(4, Num(1)),
    LExcept(0),
    LSay(4, Num(2)) >>]

\* try: / x = 1 / say y / say 3       (no except: the error leaves the try)
SrcTryBare == [label |-> "trybare", lines |-> <<
    LTry(0),
    LAssign(4, "x", Num(1)),
    LSay(4, Id("y")),
    LSay(0, Num(3)) >>]

\* try: / say y / except: / say bad / say 3    (the except-block throws too)
SrcExceptThrows == [label |-> "exceptthrows", lines |-> <<
    LTry(0),
    LSay(4, Id("y")),
    LExcept(0),
    LSay(4, Id("bad")),
    LSay(0, Num(3)) >>]

\* f = 0 / function f(a): / return / say a / x = f(1) / say x
SrcReturn == [label |-> "return", lines |-> <<
    LAssign(0, "f", Num(0)),
    LFunction(0, "f", <<"a">>, TRUE, TRUE),
    LReturn(4),
    LSay(4, Id("a")),
    LAssign(0, "x", Call("f", <<Num(1)>>)),
    LSay(0, Id("x")) >>]

\* function g(): / say 1 / g() / say 2
SrcCallUnbound == [label |-> "callunbound", lines |-> <<
    LFunction(0, "g", << >>, TRUE, TRUE),
    LSay(4, Num(1)),
    LCall(0, "g", << >>),
    LSay(0, Num(2)) >>]

\* y = 1 / f = 0 / function f(): / y = 5 / say y / if 1: / y = 2 / f() / say y
SrcClosure == [label |-> "closure", lines |-> <<
    LAssign(0, "y", Num(1)),
    LAssign(0, "f", Num(0)),
    LFunction(0, "f", << >>, TRUE, TRUE),
    LSay(4, Id("y")),
    LAssign(4, "y", Num(5)),
    LIf(0, Num(1)),
    LAssign(4, "y", Num(2)),
    LCall(4, "f", << >>),
    LSay(0, Id("y")) >>]

\* f(1) / say f(2)        (a later run: calls of whatever f is by then)
SrcCallLater == [label |-> "calllater", lines |-> <<
    LCall(0, "f", <<Num(1)>>),
    LSay(0, Call("f", <<Num(2)>>)) >>]

\* if 1: / true = 5 / say true / true = 5 / say 1
SrcConstant == [label |-> "constant", lines |-> <<
    LIf(0, Num(1)),
    LAssign(4, "true", Num(5)),
    LSay(4, Id("true")),
    LAssign(0, "true", Num(5)),
    LSay(0, Num(1)) >>]

\* say None / say nil
SrcNil == [label |-> "nil", lines |-> <<
    LSay(0, Id("None")),
    LSay(0, Id("nil")) >>]

\* say 1 /     say 2        (unexpected indent at line 2)
SrcIndent == [label |-> "indent", lines |-> <<
    LSay(0, Num(1)),
    LSay(4, Num(2)) >>]

\* x = 3 / ask "n" x        (no -> : invalid ask at line 2)
SrcBadAsk == [label |-> "badask", lines |-> <<
    LAssign(0, "x", Num(3)),
    LAsk(0, Txt("n"), "x", FALSE) >>]

\* function f: / say 1        (no '(' : invalid function header at line 1)
SrcBadHeader == [label |-> "badheader", lines |-> <<
    LFunction(0, "f", << >>, FALSE, FALSE),
    LSay(4, Num(1)) >>]

\* x = 0 / while x: / say 1 / while 1: / x = 1      (the second loop never ends)
SrcWhile == [label |-> "while", lines |-> <<
    LAssign(0, "x", Num(0)),
    LWhile(0, Id("x")),
    LSay(4, Num(1)),
    LWhile(0, Num(1)),
    LAssign(4, "x", Num(1)) >>]

\* x = 9 / repeat 2 times: / x = count / for a in range(0, 2): / x = a / say x / say x
SrcLoops == [label |-> "loops", lines |-> <<
    LAssign(0, "x", Num(9)),
    LRepeat(0, Num(2)),
    LAssign(4, "x", Id("count")),
    LFor(0, "a", Call("range", <<Num(0), Num(2)>>)),
    LAssign(4, "x", Id("a")),
    LSay(4, Id("x")),
    LSay(0, Id("x")) >>]

\* ask "n" -> x / say x / ask "n" -> None
SrcAsk == [label |-> "ask", lines |-> <<
    LAsk(0, Txt("n"), "x", TRUE),
    LSay(0, Id("x")),
    LAsk(0, Txt("n"), "None", TRUE) >>]

\* import m / say m / import bad
SrcImport == [label |-> "import", lines |-> <<
    LImport(0, "m"),
    LSay(0, Id("m")),
    LImport(0, "bad") >>]

\* while 1: / break
SrcBreak == [label |-> "break", lines |-> <<
    LWhile(0, Num(1)),
    LBreak(4) >>]

\* f = 0 / function f(): / say y / say 1 / if 1: / f() / say 2 / say 3
\* (an error in a call, inside an if)
SrcDeepError == [label |-> "deeperror", lines |-> <<
    LAssign(0, "f", Num(0)),
    LFunction(0, "f", << >>, TRUE, TRUE),
    LSay(4, Id("y")),
    LSay(4, Num(1)),
    LIf(0, Num(1)),
    LCall(4, "f", << >>),
    LSay(4, Num(2)),
    LSay(0, Num(3)) >>]

\* # comment / (blank) / if 0: / say 1 / else: / print(2, 3) / x
SrcElse == [label |-> "else", lines |-> <<
    LComment(0),
    LBlank,
    LIf(0, Num(0)),
    LSay(4, Num(1)),
    LElse(0),
    LCall(4, "print", <<Num(2), Num(3)>>),
    LExpr(0, Id("x")) >>]

\* y = 1 / if 1: / import m / say m / import m / say y
SrcImportTwice == [label |-> "importtwice", lines |-> <<
    LAssign(0, "y", Num(1)),
    LIf(0, Num(1)),
    LImport(4, "m"),
    LSay(4, Id("m")),
    LImport(0, "m"),
    LSay(0, Id("y")) >>]

\* try: / import boom / except: / say 2 / if 1: / import x       (no x.bloa)
SrcImportFail == [label |-> "importfail", lines |-> <<
    LTry(0),
    LImport(4, "boom"),
    LExcept(0),
    LSay(4, Num(2)),
    LIf(0, Num(1)),
    LImport(4, "x") >>]

\* count = 9 / repeat 2 times: / say count / say count / repeat 0 times: / say 4 /
\* repeat -1 times: / say 1 / say 3
SrcRepeat == [label |-> "repeat", lines |-> <<
    LAssign(0, "count", Num(9)),
    LRepeat(0, Num(2)),
    LSay(4, Id("count")),
    LSay(0, Id("count")),
    LRepeat(0, Num(0)),
    LSay(4, Num(4)),
    LRepeat(0, Num(-1)),
    LSay(4, Num(1)),
    LSay(0, Num(3)) >>]

\* for a in [1, 2]: / say a / continue / say 9 / say 3
SrcContinue == [label |-> "continue", lines |-> <<
    LFor(0, "a", ListOf(<<Num(1), Num(2)>>)),
    LSay(4, Id("a")),
    LContinue(4),
    LSay(4, Num(9)),
    LSay(0, Num(3)) >>]

\* if 0: / say 1 / elif 1: / say 2 / else: / say 3 / say 4
SrcElif == [label |-> "elif", lines |-> <<
    LIf(0, Num(0)),
    LSay(4, Num(1)),
    LElif(0, Num(1)),
    LSay(4, Num(2)),
    LElse(0),
    LSay(4, Num(3)),
    LSay(0, Num(4)) >>]

\* if 0: / say 1 / elif 1: / say 2 / say 4
SrcElifOnly == [label |-> "elifonly", lines |-> <<
    LIf(0, Num(0)),
    LSay(4, Num(1)),
    LElif(0, Num(1)),
    LSay(4, Num(2)),
    LSay(0, Num(4)) >>]

\* say 1 2 / x = 7 ] / say x == 2
SrcTrailing == [label |-> "trailing", lines |-> <<
    LSay(0, Trail(Num(1), "2")),
    LAssign(0, "x", Trail(Num(7), "]")),
    LSay(0, Trail(Id("x"), "== 2")) >>]

\* x = [5, 6] / y = x[1] / say x[0] / try: / say x[2] / except: / say x[-1]
SrcIndex == [label |-> "index", lines |-> <<
    LAssign(0, "x", ListOf(<< Num(5), Num(6) >>)),
    LAssign(0, "y", Index(Id("x"), Num(1))),
    LSay(0, Index(Id("x"), Num(0))),
    LTry(0),
    LSay(4, Index(Id("x"), Num(2))),
    LExcept(0),
    LSay(4, Index(Id("x"), Num(-1))) >>]

\* a = "ab" / try: / say a[0] / except: / say true[0] / say g[0]
SrcIndexType == [label |-> "indextype", lines |-> <<
    LAssign(0, "a", Txt("ab")),
    LTry(0),
    LSay(4, Index(Id("a"), Num(0))),
    LExcept(0),
    LSay(4, Index(Id("true"), Num(0))),
    LSay(0, Index(Id("g"), Num(0))) >>]

\* x = [true, 1] / while x[0]: / say 1 / y = [x, [1, 2], "abc"] / say 9
SrcWhileStale == [label |-> "whilestale", lines |-> <<
    LAssign(0, "x", ListOf(<< Id("true"), Num(1) >>)),
    LWhile(0, Index(Id("x"), Num(0))),
    LSay(4, Num(1)),
    LAssign(4, "y", ListOf(<< Id("x"), ListOf(<< Num(1), Num(2) >>), Txt("abc") >>)),
    LSay(0, Num(9)) >>]

\* function len(a): / say 4 / a = print / a(1, 2) / x = "__builtin_len" /
\* say x("ab") / if 1: / len = 5 / say len("ab") / say len("ab")
SrcDispatch == [label |-> "dispatch", lines |-> <<
    LFunction(0, "len", << "a" >>, TRUE, TRUE),
    LSay(4, Num(4)),
    LAssign(0, "a", Id("print")),
    LCall(0, "a", << Num(1), Num(2) >>),
    LAssign(0, "x", Txt("__builtin_len")),
    LSay(0, Call("x", << Txt("ab") >>)),
    LIf(0, Num(1)),
    LAssign(4, "len", Num(5)),
    LSay(4, Call("len", << Txt("ab") >>)),
    LSay(0, Call("len", << Txt("ab") >>)) >>]

\* x = 3 / f = 0 / function f(): / say x / say nil / x = 4
\* (bindings and a definition, then an error that aborts the run)
SrcBindFail == [label |-> "bindfail", lines |-> <<
    LAssign(0, "x", Num(3)),
    LAssign(0, "f", Num(0)),
    LFunction(0, "f", << >>, TRUE, TRUE),
    LSay(4, Id("x")),
    LSay(0, Id("nil")),
    LAssign(0, "x", Num(4)) >>]

\* f() / say x        (a later run: uses what an earlier run left)
SrcUseLater == [label |-> "uselater", lines |-> <<
    LCall(0, "f", << >>),
    LSay(0, Id("x")) >>]

Sources == { SrcBindFail, SrcUseLater, SrcDispatch, SrcWhileStale, SrcIndex, SrcIndexType, SrcTrailing, SrcElif, SrcElifOnly, SrcContinue, SrcRepeat, SrcImportTwice, SrcImportFail, SrcShadow, SrcTry, SrcTryOk, SrcTryBare, SrcExceptThrows, SrcReturn,
             SrcCallUnbound, SrcClosure, SrcCallLater, SrcConstant, SrcNil, SrcIndent,
             SrcBadAsk, SrcBadHeader, SrcWhile, SrcLoops, SrcAsk, SrcImport, SrcBreak,
             SrcDeepError, SrcElse }

\* the module files under the stdlib path: m.bloa, bad.bloa and boom.bloa
\*   m.bloa:     y = 7 / say y / function g(): / say y
\*   bad.bloa:   say 1 /     say 2         (does not parse)
\*   boom.bloa:  x = 1 / say 1 / say nil   (raises when executed)
Files == [n \in {"m", "bad", "boom"} |->
            CASE n = "m" ->
                   << LAssign(0, "y", Num(7)),
                      LSay(0, Id("y")),
                      LFunction(0, "g", << >>, TRUE, TRUE),
                      LSay(4, Id("y")) >>
              [] n = "bad" -> << LSay(0, Num(1)), LSay(4, Num(2)) >>
              [] n = "boom" ->
                   << LAssign(0, "x", Num(1)), LSay(0, Num(1)), LSay(0, Id("nil")) >>]

(***************************************************************************)
(* Import (lines 522-538), run (lines 120-134) and the session.            *)
(***************************************************************************)
\* faulty variant: the nodes parsed before the first bad line are handed on
parse_lenient(lines) == [parse_block(lines, 0, 0) EXCEPT !.err = NoErr]

\* Interpreter::parse: split_lines, then parse_block(lines, 0, 0)
parse(lines) == parse_block(lines, 0, 0)

module_handle(name) == make_str("<module '" \o name \o "'>")

\* faulty variant: a name already in the registry is not executed again
ExecImport_cached ==
    /\ AtNode /\ Node.kind = "Import" /\ Begin
    /\ IF Node.name \in DOMAIN interps[Top.interp].loaded_modules
       THEN LET b == set(envs, Top.env, Node.name, module_handle(Node.name)) IN
            IF b.err # NoErr THEN Throw(b.err, envs, out)
            ELSE Goto(Advance(stack), b.envs, interps, out)
       ELSE IF Node.name \notin DOMAIN Files
       THEN Throw(RuntimeError("Module not found", Node.name), envs, out)
       ELSE LET p == parse(Files[Node.name]) IN
            IF p.err # NoErr THEN Throw(p.err, envs, out)
            ELSE LET E1 == NewEnv(envs, interps[Top.interp].global_env)
                     mod_env == Len(E1)
                     mod_interp == Interpreter(E1, "")
                 IN Goto(Append(stack, Frame("module", p.nodes, mod_env, Len(interps) + 1,
                                             0, 0, << >>, envs)),
                         mod_interp.envs, Append(interps, mod_interp.interp), out)

\* faulty variant: the module environment hangs off the importing scope
ExecImport_scoped ==
    /\ AtNode /\ Node.kind = "Import" /\ Begin
    /\ IF Node.name \notin DOMAIN Files
       THEN Throw(RuntimeError("Module not found", Node.name), envs, out)
       ELSE LET p == parse(Files[Node.name]) IN
            IF p.err # NoErr THEN Throw(p.err, envs, out)
            ELSE LET E1 == NewEnv(envs, Top.env)
                     mod_env == Len(E1)
                     mod_interp == Interpreter(E1, "")
                 IN Goto(Append(stack, Frame("module", p.nodes, mod_env, Len(interps) + 1,
                                             0, 0, << >>, envs)),
                         mod_interp.envs, Append(interps, mod_interp.interp), out)

ExecImport ==
    /\ AtNode /\ Node.kind = "Import" /\ Begin
    /\ IF Node.name \notin DOMAIN Files
       THEN Throw(RuntimeError("Module not found", Node.name), envs, out)
       ELSE LET p == parse(Files[Node.name]) IN
            IF p.err # NoErr THEN Throw(p.err, envs, out)
            ELSE LET E1 == NewEnv(envs, interps[Top.interp].global_env)
                     mod_env == Len(E1)
                     mod_interp == Interpreter(E1, "")
                 IN Goto(Append(stack, Frame("module", p.nodes, mod_env, Len(interps) + 1,
                                             0, 0, << >>, envs)),
                         mod_interp.envs, Append(interps, mod_interp.interp), out)

\* the module's statements are done: mod_interp goes, the registry and the
\* importing scope are written (lines 537-538)
EndModule ==
    /\ AtEnd /\ Top.kind = "module" /\ Finish
    /\ LET rest == Front(stack)
           P == Last(rest)
           imp == P.block[P.idx]
           I2 == [Front(interps) EXCEPT ![P.interp].loaded_modules = Put(@, imp.name, Top.env)]
           b == set(envs, P.env, imp.name, module_handle(imp.name))
       IN IF b.err # NoErr THEN ThrowWith(rest, b.err, envs, I2, out)
          ELSE Goto(Advance(rest), b.envs, I2, out)

\* run(code, filename): parse, then execute_block(nodes, global_env); a
\* parse error is reported like any other
Run ==
    /\ stack = << >> /\ runs < MaxRuns /\ ~raised
    /\ \E src \in Sources :
         LET p == parse(src.lines) IN
         /\ source' = src
         /\ runs' = runs + 1
         /\ steps' = 0
         /\ hist' = hist
         /\ IF p.err # NoErr
            THEN /\ err' = Append(err, Report(p.err, src.label, runs + 1, Len(hist)))
                 /\ UNCHANGED <<envs, interps, stack, out, raised>>
            ELSE Goto(<< Frame("top", p.nodes, interps[1].global_env, 1, 0, 0, << >>, envs) >>,
                      envs, interps, out)

\* execute_block returns to run(), run() returns to the host
EndRun ==
    /\ AtEnd /\ Top.kind = "top" /\ Finish
    /\ Goto(<< >>, envs, interps, out)

\* a session: bloa::Interpreter interp(".") (main.cpp 27, 69)
Init ==
    /\ envs = Interpreter(<< >>, ".").envs
    /\ interps = << Interpreter(<< >>, ".").interp >>
    /\ stack = << >>
    /\ out = << >>
    /\ err = << >>
    /\ source = [label |-> "", lines |-> << >>]
    /\ runs = 0
    /\ steps = 0
    /\ raised = FALSE
    /\ hist = << >>

Next ==
    \/ Run
    \/ ExecSay
    \/ ExecAsk
    \/ ExecAssign
    \/ ExecIf
    \/ ExecRepeat
    \/ ExecFunctionDef
    \/ ExecFunctionCall
    \/ ExecReturn
    \/ ExecImport
    \/ ExecExprStmt
    \/ ExecWhile
    \/ ExecForIn
    \/ ExecTryExcept
    \/ ExecUnknown
    \/ EndBranch
    \/ EndRepeat
    \/ EndWhile
    \/ EndForIn
    \/ EndCall
    \/ EndModule
    \/ EndRun

Spec == Init /\ [][Next]_vars

(***************************************************************************)
(* A session of one run() on a generated source: every sequence of at most *)
(* MaxLines lines out of GenLine.                                          *)
(***************************************************************************)
GenLine == { LSay(0, Num(1)), LSay(4, Num(2)), LSay(8, Num(3)), LTabSay(1, Num(4)),
             LBlank, LComment(4), LIf(0, Num(1)),
             LAsk(0, Txt("n"), "x", FALSE),
             LFunction(0, "f", << >>, FALSE, FALSE),
             LFunction(0, "f", <<"a">>, TRUE, FALSE) }

GenSources == { [label |-> "gen", lines |-> ls] :
                  ls \in UNION { [1..n -> GenLine] : n \in 0..MaxLines } }

RunGen ==
    /\ stack = << >> /\ runs = 0 /\ ~raised
    /\ \E src \in GenSources :
         LET p == parse(src.lines) IN
         /\ source' = src
         /\ runs' = runs + 1
         /\ steps' = 0
         /\ hist' = hist
         /\ IF p.err # NoErr
            THEN /\ err' = Append(err, Report(p.err, src.label, runs + 1, Len(hist)))
                 /\ UNCHANGED <<envs, interps, stack, out, raised>>
            ELSE Goto(<< Frame("top", p.nodes, interps[1].global_env, 1, 0, 0, << >>, envs) >>,
                      envs, interps, out)

NextParse ==
    \/ RunGen
    \/ ExecSay
    \/ ExecIf
    \/ ExecFunctionDef
    \/ EndBranch
    \/ EndRun

ParseSpec == Init /\ [][NextParse]_vars

(***************************************************************************)
(* A session of one run() on a generated source that assigns the value of  *)
(* an expression: every binary operator on every pair of operands, calls   *)
(* of range, and calls of append at the top level and in a nested block.   *)
(***************************************************************************)
Operators == {"+", "-", "*", "/", "%", "^"}

Operands == { Num(0), Num(2), Num(-3), Num(7), Lit(make_double(Rat(3, 2))),
              Txt("ab"), Txt("3"), Txt("2x"), Id("true"), Id("None"),
              ListOf(<< Num(1), Txt("ab") >>) }

\* the value of an operand in the environment of a new session
operand_value(x) == parse_primary(Interpreter(<< >>, ".").envs, 1, x).val

\* the powers the doubles of the model can hold: a whole exponent, and no
\* negative power of zero
pow_in_model(l, r) ==
    (is_numeric(operand_value(l)) /\ is_numeric(operand_value(r))) =>
       /\ is_whole(value_as_number(operand_value(r)))
       /\ value_as_number(operand_value(r)).n < 0 => value_as_number(operand_value(l)).n # 0

\* x = l op r
BinarySources ==
    { [label |-> "binary", lines |-> << LAssign(0, "x", Bin(t[1], t[2], t[3])) >>] :
        t \in { u \in Operators \X Operands \X Operands :
                  u[1] = "^" => pow_in_model(u[2], u[3]) } }

RangeArgs == { << >>, << Num(1) >>, << Num(0), Num(2), Num(1) >> } \cup
             { << Num(a), Num(b) >> : a \in -2..3, b \in -2..3 }

\* x = range(args)
RangeSources ==
    { [label |-> "range", lines |-> << LAssign(0, "x", Call("range", as)) >>] : as \in RangeArgs }

\* x = first / y = append(x, v), the call at the top level or under `if 1:`
AppendSources ==
    { [label |-> "append", lines |-> << LAssign(0, "x", first),
                                         LAssign(0, "y", Call("append", << Id("x"), v >>)) >>] :
        first \in Operands, v \in Operands } \cup
    { [label |-> "append", lines |-> << LAssign(0, "x", first),
                                         LIf(0, Num(1)),
                                         LAssign(4, "y", Call("append", << Id("x"), v >>)) >>] :
        first \in Operands, v \in Operands }

EvalSources == BinarySources \cup RangeSources \cup AppendSources

RunEval ==
    /\ stack = << >> /\ runs = 0 /\ ~raised
    /\ \E src \in EvalSources :
         LET p == parse(src.lines) IN
         /\ source' = src
         /\ runs' = runs + 1
         /\ steps' = 0
         /\ hist' = hist
         /\ IF p.err # NoErr
            THEN /\ err' = Append(err, Report(p.err, src.label, runs + 1, Len(hist)))
                 /\ UNCHANGED <<envs, interps, stack, out, raised>>
            ELSE Goto(<< Frame("top", p.nodes, interps[1].global_env, 1, 0, 0, << >>, envs) >>,
                      envs, interps, out)

NextEval ==
    \/ RunEval
    \/ ExecAssign
    \/ ExecIf
    \/ EndBranch
    \/ EndRun

EvalSpec == Init /\ [][NextEval]_vars

(***************************************************************************)
(* A session of one run() on a generated source holding one try/except     *)
(* inside at most MaxDepth enclosing blocks:                               *)
(*   header_1 / ... / header_d / try: / say e / except: / say 2 / say 3    *)
(* each header indented one step more than the one before, the try and the *)
(* except at the indentation of the innermost block.                       *)
(***************************************************************************)
Headers == {"if", "repeat", "while", "for", "function", "try"}

header_line(h, sp) ==
    CASE h = "if" -> LIf(sp, Num(1))
      [] h = "repeat" -> LRepeat(sp, Num(1))
      [] h = "while" -> LWhile(sp, Num(0))
      [] h = "for" -> LFor(sp, "a", ListOf(<< Num(1) >>))
      [] h = "function" -> LFunction(sp, "f", << >>, TRUE, TRUE)
      [] h = "try" -> LTry(sp)

NestedSource(hs, e) ==
    LET d == Len(hs) IN
    [label |-> "nested",
     lines |-> [i \in 1..d |-> header_line(hs[i], IndentStep * (i - 1))] \o
               << LTry(IndentStep * d), LSay(IndentStep * (d + 1), e),
                  LExcept(IndentStep * d), LSay(IndentStep * (d + 1), Num(2)),
                  LSay(0, Num(3)) >>]

NestedSources ==
    { NestedSource(hs, e) :
        hs \in UNION { [1..d -> Headers] : d \in 0..MaxDepth },
        e \in {Id("nil"), Num(1), Txt("ab")} }

RunNested ==
    /\ stack = << >> /\ runs = 0 /\ ~raised
    /\ \E src \in NestedSources :
         LET p == parse(src.lines) IN
         /\ source' = src
         /\ runs' = runs + 1
         /\ steps' = 0
         /\ hist' = hist
         /\ IF p.err # NoErr
            THEN /\ err' = Append(err, Report(p.err, src.label, runs + 1, Len(hist)))
                 /\ UNCHANGED <<envs, interps, stack, out, raised>>
            ELSE Goto(<< Frame("top", p.nodes, interps[1].global_env, 1, 0, 0, << >>, envs) >>,
                      envs, interps, out)

NextNested ==
    \/ RunNested
    \/ ExecTryExcept
    \/ ExecSay
    \/ EndBranch
    \/ EndRun

NestedSpec == Init /\ [][NextNested]_vars

(***************************************************************************)
(* Properties.                                                             *)
(***************************************************************************)
\* the environments from e to the root, innermost first
RECURSIVE Chain(_, _)
Chain(E, e) == IF e = 0 THEN << >> ELSE << e >> \o Chain(E, E[e].parent)

ChainSet(E, e) == { Chain(E, e)[i] : i \in 1..Len(Chain(E, e)) }

\* the activations of nested blocks (then/else, loop bodies, try and except)
BlockKinds == {"then", "else", "while", "repeat", "forin", "try", "except"}


\* C1: block-local assignment never leaks.  While the body of an If, While,
\* Repeat, ForIn or TryExcept is active, and in the state its last step leaves
\* (the block has ended), every environment of the enclosing chain is what it
\* was when the block began.
C1_BlockAssignNeverLeaks ==
    [][\A i \in 1..Len(stack) :
         stack[i].kind \in BlockKinds =>
           \A e \in ChainSet(stack[i].snap, stack[i - 1].env) :
              /\ e <= Len(envs')
              /\ envs'[e] = stack[i].snap[e]]_vars

\* a block body has ended after assigning, in its own scope, a name that the
\* enclosing chain binds to another value
C1_Witness ==
    /\ stack # << >>
    /\ Top.kind \in BlockKinds
    /\ Top.idx > Len(Top.block)
    /\ \E j \in 1..Len(hist) :
         /\ hist[j].kind = "Assign" /\ hist[j].env = Top.env /\ hist[j].run = runs
         /\ \E n \in Names :
              /\ envs[Top.env].vars[n] # Unbound
              /\ get(envs, envs[Top.env].parent, n) # Unbound
              /\ get(envs, envs[Top.env].parent, n) # envs[Top.env].vars[n]

\* C2: lookup is innermost-first.  For every environment of the heap and
\* every name, get returns the binding of the first environment of the chain
\* (from the environment itself to the root) that binds the name, and no
\* value exactly when none does.
C2_LookupInnermostFirst ==
    \A e \in 1..Len(envs) : \A n \in Names :
        LET ch == Chain(envs, e)
            B == { i \in 1..Len(ch) : envs[ch[i]].vars[n] # Unbound }
        IN IF B = {} THEN get(envs, e, n) = Unbound
           ELSE \E i \in B : /\ \A k \in B : i <= k
                             /\ get(envs, e, n) = envs[ch[i]].vars[n]

\* a Say has just printed a name bound in its own scope and, to another
\* value, in an enclosing one
C2_Witness ==
    /\ stack # << >> /\ hist # << >> /\ out # << >>
    /\ Last(hist).kind = "Say" /\ Last(hist).env = Top.env
    /\ \E n \in Names :
         /\ envs[Top.env].vars[n] # Unbound
         /\ envs[Top.env].parent # 0
         /\ get(envs, envs[Top.env].parent, n) # Unbound
         /\ get(envs, envs[Top.env].parent, n) # envs[Top.env].vars[n]
         /\ Top.block[Top.idx - 1].expr = Id(n)
         /\ Last(out) = value_to_string(envs[Top.env].vars[n])

\* C3 (as claimed): after construction no binding of true, false or None is
\* ever made: a global environment keeps the constructor's values and no
\* other environment binds any of the three names.
C3_ConstantRebindRejected ==
    \A e \in 1..Len(envs) : \A c \in Constants :
        envs[e].vars[c] = IF envs[e].parent = 0 THEN literal_of(c) ELSE Unbound

\* C4 (as claimed): in every environment a statement that says or assigns
\* the identifier true, false, None or nil evaluates it to Bool true, Bool
\* false, Nil and Nil, and the binding the scope chain holds for the name is
\* that same value.
C4_PseudoLiteralsConsistent ==
    [][\A n \in {"true", "false", "None", "nil"} :
         (AtNode /\ Node.kind \in {"Say", "Assign"} /\ ExprOf(Node) = Id(n)) =>
            LET v == IF n \in {"None", "nil"} THEN Nil ELSE make_bool(n = "true") IN
            /\ get(envs, Top.env, n) = v
            /\ Node.kind = "Say" => out' = Append(out, value_to_string(v))
            /\ Node.kind = "Assign" =>
                  (Len(envs') = Len(envs) /\ envs'[Top.env].vars[Node.name] = v)]_vars

\* the latest run() call was handed a source that does not parse
ParseFailed == runs > 0 /\ parse_block(source.lines, 0, 0).err # NoErr

\* C5: run() parses the whole source before executing any of it.  A run()
\* call whose source raises a parse error writes nothing, changes no
\* environment, function table or module registry, starts no activation and
\* executes no statement of that source: it only reports the error.
C5_ParseBeforeExecute ==
    /\ [](ParseFailed =>
            /\ stack = << >>
            /\ \A j \in 1..Len(hist) : hist[j].run # runs)
    /\ [][(runs' = runs + 1 /\ parse_block(source'.lines, 0, 0).err # NoErr) =>
            /\ out' = out /\ envs' = envs /\ interps' = interps
            /\ hist' = hist /\ stack' = << >> /\ raised' = raised
            /\ err' = Append(err, Report(parse_block(source'.lines, 0, 0).err,
                                         source'.label, runs', Len(hist)))]_vars

\* a run() call has reported a parse error at a line that follows
\* statements that parsed
C5_Witness ==
    /\ ParseFailed
    /\ parse_block(source.lines, 0, 0).nodes # << >>
    /\ err # << >> /\ Last(err).run = runs /\ Last(err).line > 1
    /\ Last(err).file = source.label

\* C6: statements execute strictly in source order, and an uncaught runtime
\* error stops the run.  In every activation the statements begun are its
\* 1st, 2nd, 3rd, ... in that order, each once, at increasing source lines;
\* a step that reports an error reports one, with the label of the run, and
\* leaves no activation; no statement of that run begins after the report;
\* a run reports at most once, and no exception ever leaves run().
C6_InOrderAndErrorStops ==
    /\ [](/\ \A j \in 1..Len(hist) :
               /\ hist[j].idx = 1 + Cardinality({ i \in 1..(j - 1) :
                                      hist[i].run = hist[j].run /\ hist[i].env = hist[j].env })
               /\ \A i \in 1..(j - 1) :
                     (hist[i].run = hist[j].run /\ hist[i].env = hist[j].env)
                        => hist[i].line < hist[j].line
          /\ \A a \in 1..Len(err) :
               /\ \A j \in 1..Len(hist) : j > err[a].at => hist[j].run # err[a].run
               /\ \A b \in 1..Len(err) : a # b => err[a].run # err[b].run
          /\ ~raised)
    /\ [][Len(err') > Len(err) =>
            /\ stack' = << >>
            /\ Len(err') = Len(err) + 1
            /\ Front(err') = err
            /\ Last(err').file = source'.label
            /\ Last(err').run = runs'
            /\ Last(err').at = Len(hist')]_vars

\* a run has been stopped by an error raised in a nested activation while
\* statements of the top-level block were still to come
C6_Witness ==
    /\ stack = << >> /\ err # << >> /\ hist # << >>
    /\ Last(err).run = runs /\ Last(err).at = Len(hist)
    /\ Last(hist).run = runs
    /\ Last(hist).env # interps[1].global_env
    /\ Cardinality({ j \in 1..Len(hist) :
                       hist[j].run = runs /\ hist[j].env = interps[1].global_env })
          < Len(parse_block(source.lines, 0, 0).nodes)

\* the error the statement on top raises while its expression is evaluated
\* or its target is bound, NoErr when it raises none there
RaisedBy(node) ==
    LET r == eval_expr(envs, Top.env, ExprOf(node)) IN
    IF r.tag = "err" THEN r.err
    ELSE IF r.tag = "value" /\ node.kind = "Assign"
         THEN set(envs, Top.env, node.name, r.val).err
    ELSE NoErr

\* the try-block activations whose TryExcept has a non-empty except-block
Handlers(stk) ==
    { i \in 2..Len(stk) :
        stk[i].kind = "try" /\ stk[i - 1].block[stk[i - 1].idx].except_block # << >> }

Max(S) == CHOOSE m \in S : \A k \in S : k <= m

\* C7: a runtime error raised in a try-block (at any depth of activations
\* inside it) abandons what is left of that block; the innermost enclosing
\* TryExcept with a non-empty except-block then runs that block, first
\* statement first, in a new empty scope whose parent is the scope the
\* TryExcept stands in, nothing is reported, and when the except-block ends
\* the statement after the TryExcept is next.  With no such TryExcept the
\* error leaves every activation and is reported.  An except-block is
\* entered only by such an error; a try-block that ends without one goes
\* straight on to the statement after the TryExcept.
C7_TryExceptRecovers ==
    [][/\ (AtNode /\ Node.kind \in {"Say", "Assign", "ExprStmt", "FunctionCall"}
                  /\ RaisedBy(Node) # NoErr) =>
             LET H == Handlers(stack) IN
             IF H = {}
             THEN /\ stack' = << >>
                  /\ Len(err') = Len(err) + 1
                  /\ Last(err').msg = RaisedBy(Node).msg
                  /\ Last(err').name = RaisedBy(Node).name
             ELSE LET h == Max(H)
                      te == stack[h - 1].block[stack[h - 1].idx]
                  IN /\ Len(stack') = h
                     /\ SubSeq(stack', 1, h - 1) = SubSeq(stack, 1, h - 1)
                     /\ stack'[h].kind = "except"
                     /\ stack'[h].block = te.except_block
                     /\ stack'[h].idx = 1
                     /\ Len(envs') = Len(envs) + 1
                     /\ stack'[h].env = Len(envs')
                     /\ envs'[Len(envs')] = Environment(stack[h - 1].env)
                     /\ \A e \in 1..Len(envs) : envs'[e] = envs[e]
                     /\ err' = err
       /\ (AtEnd /\ Top.kind \in {"try", "except"}) =>
             /\ stack' = Advance(Front(stack))
             /\ envs' = envs /\ err' = err /\ out' = out
       /\ (stack' # << >> /\ Last(stack').kind = "except" /\ Last(stack').env > Len(envs)) =>
             /\ AtNode
             /\ Len(stack') \in Handlers(stack)]_vars

\* an except-block is about to run because `say y`, with y undefined, raised
\* inside the try-block while statements of that block were still to come
C7_Witness ==
    /\ stack # << >> /\ Len(stack) >= 2 /\ hist # << >>
    /\ Top.kind = "except" /\ Top.idx = 1
    /\ LET P == stack[Len(stack) - 1]
           te == P.block[P.idx]
       IN /\ te.kind = "TryExcept"
          /\ Last(hist).run = runs
          /\ Last(hist).kind = "Say"
          /\ Last(hist).idx < Len(te.try_block)
          /\ te.try_block[Last(hist).idx].line = Last(hist).line
          /\ te.try_block[Last(hist).idx].expr.k = "id"
          /\ get(envs, P.env, te.try_block[Last(hist).idx].expr.name) = Unbound
    /\ \A a \in 1..Len(err) : err[a].run # runs

\* C8: a Return statement does nothing: the statement after it in the same
\* block runs next, nothing is written or bound; and a user function call
\* evaluates to Nil whatever its body did: an assignment of the call binds
\* Nil, a say of the call prints None.
C8_ReturnIgnored ==
    [][/\ (AtNode /\ Node.kind = "Return") =>
             /\ stack' = Advance(stack)
             /\ envs' = envs /\ out' = out /\ err' = err /\ interps' = interps
       /\ (AtEnd /\ Top.kind = "call") =>
             LET P == stack[Len(stack) - 1]
                 node == P.block[P.idx]
             IN /\ (node.kind = "Say") => out' = Append(out, "None")
                /\ (node.kind = "Assign" /\ Len(stack') = Len(stack) - 1) =>
                      envs'[P.env].vars[node.name] = Nil]_vars

\* a function body went on past its return statement and the assignment of
\* the call has bound Nil
C8_Witness ==
    /\ stack # << >>
    /\ \E j \in 1..(Len(hist) - 1) :
          /\ hist[j].run = runs /\ hist[j].kind = "Return"
          /\ hist[j + 1].run = runs /\ hist[j + 1].env = hist[j].env
          /\ hist[j + 1].idx = hist[j].idx + 1
          /\ hist[j + 1].kind = "Say"
    /\ Len(stack) = 1 /\ Top.idx > 1
    /\ Top.block[Top.idx - 1].kind = "Assign"
    /\ Top.block[Top.idx - 1].expr.k = "call"
    /\ Top.block[Top.idx - 1].expr.name \in DOMAIN interps[Top.interp].functions
    /\ envs[Top.env].vars[Top.block[Top.idx - 1].name] = Nil

\* C9 (as claimed): a call f(a1, ..., an) of a name in the function table
\* with n parameters, whose arguments evaluate, activates f's body, whether
\* or not a variable named f is bound.
C9_CallResolvesThroughFunctionTable ==
    [][(/\ AtNode /\ Node.kind \in {"Say", "Assign", "ExprStmt", "FunctionCall"}
        /\ ExprOf(Node).k = "call"
        /\ ExprOf(Node).name \in DOMAIN interps[Top.interp].functions
        /\ Len(interps[Top.interp].functions[ExprOf(Node).name].params)
              = Len(ExprOf(Node).args)
        /\ \A i \in 1..Len(ExprOf(Node).args) :
              eval_expr(envs, Top.env, ExprOf(Node).args[i]).tag = "value")
       => /\ Len(stack') = Len(stack) + 1
          /\ Front(stack') = stack
          /\ Last(stack').kind = "call"
          /\ Last(stack').idx = 1
          /\ Last(stack').block = interps[Top.interp].functions[ExprOf(Node).name].block]_vars

\* the value the call environment holds for name n after the parameters are
\* bound in order to the argument values
BoundTo(params, args, n) ==
    LET I == { i \in 1..Len(params) : params[i] = n } IN
    IF I = {} THEN Unbound ELSE args[Max(I)]

\* C10: a function body runs in a new environment whose parent is the
\* environment the function was defined in, not the caller's, and that holds
\* exactly the parameters, bound to the argument values as the caller's
\* scope evaluates them; starting the call changes no existing environment,
\* and while the call is active no environment that existed when it began
\* is written, the caller's chain included.
C10_LexicalCallEnvironment ==
    /\ [](\A i \in 1..Len(stack) :
            stack[i].kind = "call" =>
               /\ Len(stack[i].snap) < stack[i].env
               /\ \A e \in 1..Len(stack[i].snap) : envs[e] = stack[i].snap[e])
    /\ [][(Len(stack') = Len(stack) + 1 /\ Last(stack').kind = "call") =>
            LET c == ExprOf(Node)
                entry == interps[Top.interp].functions[c.name]
                a == parse_args(envs, Top.env, c.args, 1, << >>, << >>)
                ce == Last(stack').env
            IN /\ Front(stack') = stack
               /\ ce = Len(envs) + 1 /\ Len(envs') = ce
               /\ envs'[ce].parent = entry.def_env
               /\ Chain(envs', ce) = <<ce>> \o Chain(envs, entry.def_env)
               /\ \A n \in Names : envs'[ce].vars[n] = BoundTo(entry.params, a.val.v, n)
               /\ \A e \in 1..Len(envs) : envs'[e] = envs[e]
               /\ Last(stack').block = entry.block]_vars

\* a body called from a scope other than its defining one has printed the
\* value the defining scope holds for a name the caller's scope rebinds
C10_Witness ==
    /\ Len(stack) >= 2 /\ hist # << >> /\ out # << >>
    /\ Top.kind = "call"
    /\ LET caller == stack[Len(stack) - 1].env
           def_env == envs[Top.env].parent
       IN /\ caller # def_env
          /\ Last(hist).kind = "Say" /\ Last(hist).env = Top.env /\ Last(hist).run = runs
          /\ Top.idx = Last(hist).idx + 1
          /\ Top.block[Last(hist).idx].expr.k = "id"
          /\ LET n == Top.block[Last(hist).idx].expr.name IN
             /\ get(envs, caller, n) # get(envs, def_env, n)
             /\ get(envs, caller, n) # Unbound
             /\ Last(out) = value_to_string(get(envs, def_env, n))

\* the statement on top is a call of user function f, a name of the function
\* table, with a number of arguments other than f's number of parameters
ArityMismatch ==
    /\ AtNode /\ Node.kind \in {"Say", "Assign", "ExprStmt", "FunctionCall"}
    /\ eval_expr(envs, Top.env, ExprOf(Node)).tag = "user"
    /\ ExprOf(Node).name \in DOMAIN interps[Top.interp].functions
    /\ Len(interps[Top.interp].functions[ExprOf(Node).name].params) # Len(ExprOf(Node).args)

\* C11: a call of a user function with a number of arguments other than its
\* number of parameters raises an error that names the function, and no
\* statement of the body runs: no call activation and no environment is
\* created by the step, no existing environment changes, and the error is
\* reported (or handed to the enclosing except-block) at once.
C11_ArityMismatchRaises ==
    [][ArityMismatch =>
          /\ \A i \in 1..Len(stack') : i > Len(stack) - 1 => stack'[i].kind # "call"
          /\ Len(stack') <= Len(stack)
          /\ \A e \in 1..Len(envs) : envs'[e] = envs[e]
          /\ hist' = Append(hist, Event(Node, Top.env, Top.idx))
          /\ IF Handlers(stack) = {}
             THEN /\ stack' = << >>
                  /\ Len(envs') = Len(envs)
                  /\ Len(err') = Len(err) + 1
                  /\ Last(err').name = ExprOf(Node).name
                  /\ Last(err').msg = "Function expects a different number of arguments"
             ELSE /\ err' = err
                  /\ Last(stack').kind = "except"]_vars

\* a run has just been stopped by the call of a function with a body, made
\* with one argument too many
C11_Witness ==
    /\ stack = << >> /\ err # << >> /\ hist # << >>
    /\ Last(err).run = runs /\ Last(err).at = Len(hist)
    /\ Last(err).msg = "Function expects a different number of arguments"
    /\ Last(err).name \in DOMAIN interps[1].functions
    /\ interps[1].functions[Last(err).name].block # << >>
    /\ Last(hist).run = runs /\ Last(hist).kind = "FunctionCall"
    /\ \A j \in 1..Len(hist) :
          hist[j].run = runs => hist[j].env = interps[1].global_env

\* the statement on top imports a module whose file exists and parses
ImportLoads ==
    /\ AtNode /\ Node.kind = "Import"
    /\ Node.name \in DOMAIN Files
    /\ parse_block(Files[Node.name], 0, 0).err = NoErr

\* the statements begun so far in the activation on environment e
Begun(e) == { j \in 1..Len(hist) : hist[j].env = e }

\* C12: no import cache is kept.  Whether or not the registry already holds
\* the name, an import of a loadable module starts an activation of the
\* module's whole node list, first statement first, in an environment made
\* for this execution; when that activation ends every top-level statement
\* of the module has begun exactly once in it, and the registry entry of the
\* name becomes the environment of this execution.
C12_ImportReexecutes ==
    [][/\ ImportLoads =>
             /\ Len(stack') = Len(stack) + 1
             /\ Front(stack') = stack
             /\ Last(stack').kind = "module"
             /\ Last(stack').block = parse_block(Files[Node.name], 0, 0).nodes
             /\ Last(stack').idx = 1
             /\ Last(stack').env = Len(envs) + 1
             /\ envs'[Len(envs) + 1].vars = EmptyVars
             /\ out' = out
       /\ (AtEnd /\ Top.kind = "module") =>
             LET P == stack[Len(stack) - 1]
                 imp == P.block[P.idx]
             IN /\ Cardinality(Begun(Top.env)) = Len(Top.block)
                /\ { hist[j].idx : j \in Begun(Top.env) } = 1..Len(Top.block)
                /\ \A j \in Begun(Top.env) : hist[j].run = runs
                /\ Len(interps') = Len(interps) - 1
                /\ imp.name \in DOMAIN interps'[P.interp].loaded_modules
                /\ interps'[P.interp].loaded_modules[imp.name] = Top.env]_vars

\* module m has been imported twice in one run: its `say y` has run in two
\* environments and the registry holds the later one
C12_Witness ==
    /\ stack # << >> /\ Top.kind = "top"
    /\ "m" \in DOMAIN interps[1].loaded_modules
    /\ \E e1 \in 1..Len(envs) :
          /\ e1 < interps[1].loaded_modules["m"]
          /\ \E j \in Begun(e1) : hist[j].run = runs /\ hist[j].kind = "Say" /\ hist[j].idx = 2
          /\ envs[e1].parent = interps[1].global_env
          /\ envs[e1].vars["y"] = make_int(7)
    /\ \E j \in Begun(interps[1].loaded_modules["m"]) :
          hist[j].run = runs /\ hist[j].kind = "Say" /\ hist[j].idx = 2
    /\ Cardinality({ k \in 1..Len(out) : out[k] = "7" }) >= 2

\* C13: an import executes the module in a new environment whose parent is
\* the importer's global environment, not the importing scope, and changes
\* nothing else while the module runs; when the module's statements are
\* done the registry maps the name to that environment and the importing
\* scope, and no other environment, binds the name to the module handle.
\* An import of a missing or unparsable module, and an error that leaves a
\* module's execution, change no registry and no existing environment.
C13_ImportScopes ==
    /\ [](\A i \in 1..Len(stack) :
            stack[i].kind = "module" =>
               /\ envs[stack[i].env].parent = interps[stack[i - 1].interp].global_env
               /\ \A e \in 1..Len(stack[i].snap) : envs[e] = stack[i].snap[e])
    /\ [][/\ ImportLoads =>
                /\ envs'[Len(envs) + 1] = Environment(interps[Top.interp].global_env)
                /\ \A e \in 1..Len(envs) : envs'[e] = envs[e]
                /\ \A k \in 1..Len(interps) : interps'[k] = interps[k]
          /\ (AtNode /\ Node.kind = "Import" /\ ~ImportLoads) =>
                /\ \A e \in 1..Len(envs) : envs'[e] = envs[e]
                /\ \A k \in 1..Len(interps') : interps'[k] = interps[k]
                /\ Len(stack') <= Len(stack)
                /\ stack' # << >> => Last(stack').kind = "except"
                /\ stack' = << >> => Len(err') = Len(err) + 1
          /\ (AtEnd /\ Top.kind = "module") =>
                LET P == stack[Len(stack) - 1]
                    name == P.block[P.idx].name
                IN (name \notin Constants) =>
                     /\ stack' = Advance(Front(stack))
                     /\ interps' = [Front(interps) EXCEPT
                                      ![P.interp].loaded_modules = Put(@, name, Top.env)]
                     /\ envs' = [envs EXCEPT ![P.env].vars[name] = module_handle(name)]
          /\ \A k \in 1..Len(interps') :
                (k <= Len(interps) /\ interps'[k].loaded_modules # interps[k].loaded_modules)
                   => (AtEnd /\ Top.kind = "module" /\ stack[Len(stack) - 1].interp = k)
          /\ \A i \in 1..Len(stack) :
                (/\ stack[i].kind = "module"
                 /\ ~(AtEnd /\ i = Len(stack))
                 /\ (Len(stack') < i \/ stack'[i].env # stack[i].env))
                   => /\ \A e \in 1..Len(envs) : envs'[e] = envs[e]
                      /\ \A k \in 1..Len(interps') : interps'[k] = interps[k]]_vars

\* an import made inside an if-block has just succeeded: the block's scope
\* binds the handle, the enclosing scope does not bind the name, and the
\* registered environment is a child of the global one, not of the block's
C13_Witness ==
    /\ Len(stack) >= 2 /\ Top.kind = "then" /\ Top.idx > 1
    /\ Top.block[Top.idx - 1].kind = "Import"
    /\ LET name == Top.block[Top.idx - 1].name IN
       /\ envs[Top.env].vars[name] = module_handle(name)
       /\ get(envs, envs[Top.env].parent, name) = Unbound
       /\ name \in DOMAIN interps[Top.interp].loaded_modules
       /\ envs[interps[Top.interp].loaded_modules[name]].parent = interps[Top.interp].global_env
       /\ interps[Top.interp].global_env # Top.env
       /\ Len(interps) = 1

\* iteration number c of a Repeat standing in scope `parent`, as the step
\* that starts it leaves stack and heap
StartsIteration(rest, node, c) ==
    /\ Len(stack') = Len(rest) + 1
    /\ SubSeq(stack', 1, Len(rest)) = rest
    /\ Last(stack').kind = "repeat"
    /\ Last(stack').block = node.block
    /\ Last(stack').idx = 1
    /\ Last(stack').env = Len(envs) + 1
    /\ Len(envs') = Len(envs) + 1
    /\ envs'[Len(envs')].parent = Last(rest).env
    /\ envs'[Len(envs')].vars = [EmptyVars EXCEPT !["count"] = make_int(c)]
    /\ \A e \in 1..Len(envs) : envs'[e] = envs[e]

\* C14: a Repeat whose count evaluates to the number n raises before any
\* iteration when n < 0, runs nothing when n = 0, and otherwise runs its body
\* n times, one after the other, each time from its first statement in a new
\* child of the enclosing scope that binds only count, to 1, 2, ..., n; the
\* count expression writes nothing after the first evaluation, and the
\* enclosing scope's binding of count is, during and after the loop, what it
\* was before.
C14_RepeatCounts ==
    /\ [](\A i \in 1..Len(stack) :
            stack[i].kind = "repeat" =>
               LET p == stack[i - 1].env IN
               /\ envs[stack[i].env].parent = p
               /\ envs[p].vars["count"] = stack[i].snap[p].vars["count"]
               /\ 0 <= stack[i].j /\ stack[i].j < stack[i].times)
    /\ [][/\ (AtNode /\ Node.kind = "Repeat"
                     /\ eval_expr(envs, Top.env, Node.times_expr).tag = "value"
                     /\ is_numeric(eval_expr(envs, Top.env, Node.times_expr).val)) =>
                LET n == to_int64(value_as_number(eval_expr(envs, Top.env, Node.times_expr).val)) IN
                CASE n < 0 ->
                       /\ Len(stack') <= Len(stack)
                       /\ \A i \in 1..Len(stack') : stack'[i].kind = "repeat" => i < Len(stack)
                       /\ \A e \in 1..Len(envs) : envs'[e] = envs[e]
                       /\ Handlers(stack) = {} =>
                             /\ stack' = << >>
                             /\ Last(err').msg = "repeat count must be non-negative"
                             /\ Len(err') = Len(err) + 1
                  [] n = 0 -> stack' = Advance(stack) /\ envs' = envs
                  [] n > 0 -> StartsIteration(stack, Node, 1)
          /\ (AtEnd /\ Top.kind = "repeat") =>
                LET rest == Front(stack)
                    node == Last(rest).block[Last(rest).idx]
                    n == to_int64(value_as_number(eval_expr(envs, Last(rest).env, node.times_expr).val))
                IN /\ out' = out
                   /\ IF Top.j + 1 < n
                      THEN /\ StartsIteration(rest, node, Top.j + 2)
                           /\ Last(stack').j = Top.j + 1
                      ELSE /\ Top.j + 1 = n
                           /\ stack' = Advance(rest)
                           /\ envs' = envs]_vars

\* a `repeat 2 times:` whose body says count has just finished in a scope
\* that bound count to 9 before: 1 and 2 were printed and count is still 9
C14_Witness ==
    /\ stack # << >> /\ Len(out) >= 2 /\ hist # << >>
    /\ Top.idx > 1 /\ Top.idx <= Len(Top.block)
    /\ Top.block[Top.idx - 1].kind = "Repeat"
    /\ Top.block[Top.idx - 1].times_expr = Num(2)
    /\ Top.block[Top.idx - 1].block[1].kind = "Say"
    /\ Top.block[Top.idx - 1].block[1].expr = Id("count")
    /\ Last(hist).run = runs /\ Last(hist).env # Top.env
    /\ Last(hist).line = Top.block[Top.idx - 1].block[1].line
    /\ envs[Top.env].vars["count"] = make_int(9)
    /\ out[Len(out) - 1] = "1" /\ out[Len(out)] = "2"

LoopKinds == {"while", "repeat", "forin"}

\* the activations that are a loop body
Loops(stk) == { i \in 2..Len(stk) : stk[i].kind \in LoopKinds }

\* C15 (as claimed): a Break executed inside a loop body ends the innermost
\* enclosing loop and the statement after the loop is next; a Continue ends
\* the current iteration and the loop goes on to its next iteration, or ends
\* when there is none; neither raises an error.
C15_BreakContinueControlLoops ==
    [][(AtNode /\ Node.kind \in {"Break", "Continue"} /\ Loops(stack) # {}) =>
          LET L == Max(Loops(stack)) IN
          /\ err' = err
          /\ stack' # << >>
          /\ SubSeq(stack', 1, L - 2) = SubSeq(stack, 1, L - 2)
          /\ Node.kind = "Break" =>
                stack' = Advance(SubSeq(stack, 1, L - 1))
          /\ Node.kind = "Continue" =>
                \/ stack' = Advance(SubSeq(stack, 1, L - 1))
                \/ /\ Len(stack') = L
                   /\ stack'[L - 1] = stack[L - 1]
                   /\ stack'[L].kind = stack[L].kind
                   /\ stack'[L].block = stack[L].block
                   /\ stack'[L].idx = 1]_vars

\* the header lines (1-based) of the elif and else clauses that continue, at
\* indentation base, a chain whose clause bodies start at line i
RECURSIVE chain_headers(_, _, _, _)
chain_headers(lines, i, base, acc) ==
    IF i > Len(lines) THEN acc
    ELSE IF is_skipped(lines[i]) \/ indent_level(lines[i]) > base
         THEN chain_headers(lines, i + 1, base, acc)
    ELSE IF indent_level(lines[i]) = base /\ lines[i].form = "elif"
         THEN chain_headers(lines, i + 1, base, Append(acc, i))
    ELSE IF indent_level(lines[i]) = base /\ lines[i].form = "else"
         THEN Append(acc, i)
    ELSE acc

\* the first clause of the chain that is an else or whose condition is
\* truthy in environment env; 0 when there is none
RECURSIVE first_clause(_, _, _, _, _)
first_clause(lines, heads, k, E, env) ==
    IF k > Len(heads) THEN 0
    ELSE IF lines[heads[k]].form = "else" THEN heads[k]
    ELSE IF value_is_true(eval_expr(E, env, lines[heads[k]].cond).val) THEN heads[k]
    ELSE first_clause(lines, heads, k + 1, E, env)

\* the lines of the statements that stand directly in the clause under header h
clause_lines(lines, h, base) ==
    LET b == parse_block(lines, h, base + IndentStep).nodes IN
    { b[i].line : i \in 1..Len(b) }

\* C16 (as claimed): when a top-level if / elif* / else chain of the source
\* has been executed, the statements executed out of its clauses are exactly
\* those of the first clause whose condition is truthy, those of the else
\* clause when every condition is falsy, and none when there is no else
\* either.  (Sources without imports, chains whose conditions all evaluate.)
C16_ChainRunsFirstTruthyClause ==
    \A k \in 1..Len(source.lines) :
       (/\ Len(stack) = 1 /\ Top.kind = "top"
        /\ \A l \in 1..Len(source.lines) : source.lines[l].form # "import"
        /\ k < Top.idx /\ k <= Len(Top.block)
        /\ Top.block[k].kind = "If") =>
          LET lines == source.lines
              n == Top.block[k].line
              heads == << n >> \o chain_headers(lines, n + 1, 0, << >>)
              direct == UNION { clause_lines(lines, heads[i], 0) : i \in 1..Len(heads) }
              h == first_clause(lines, heads, 1, envs, Top.env)
              executed == { hist[j].line : j \in { i \in 1..Len(hist) : hist[i].run = runs } }
          IN (\A i \in 1..Len(heads) :
                 lines[heads[i]].form = "else"
                    \/ eval_expr(envs, Top.env, lines[heads[i]].cond).tag = "value")
             => executed \cap direct = IF h = 0 THEN {} ELSE clause_lines(lines, h, 0)

\* the block levels parse_block is called with
Indents == {0, IndentStep, 2 * IndentStep}

\* the lines (1-based) after index start that are neither blank nor comment
RealLines(lines, start) == { l \in (start + 1)..Len(lines) : ~is_skipped(lines[l]) }

Min(S) == CHOOSE m \in S : \A k \in S : m <= k

\* C17: parse_block(lines, start, indent) consumes only lines of its own
\* block.  For every start and level on the source of the run: a result
\* satisfies start <= next <= number of lines; the block ends at the end of
\* the lines or in front of a line that is neither blank nor comment and is
\* indented less than the level, and no such line was consumed; every node
\* comes from a consumed line at exactly the level that is neither blank
\* nor comment, in source order; when the first line that is neither blank
\* nor comment is indented less the result is no node and that line's index,
\* when it is indented more the result is the 'unexpected indent' error
\* with that line's 1-based number; and every 'unexpected indent' error
\* carries the number of a line indented more than the level.
C17_BlockBoundaries ==
    \A start \in 0..Len(source.lines) : \A indent \in Indents :
       LET lines == source.lines
           r == parse_block(lines, start, indent)
           real == RealLines(lines, start)
       IN /\ r.err = NoErr =>
                /\ start <= r.next /\ r.next <= Len(lines)
                /\ r.next < Len(lines) =>
                      /\ ~is_skipped(lines[r.next + 1])
                      /\ indent_level(lines[r.next + 1]) < indent
                /\ \A l \in real : l <= r.next => indent_level(lines[l]) >= indent
                /\ \A i \in 1..Len(r.nodes) :
                      /\ r.nodes[i].line \in real
                      /\ r.nodes[i].line <= r.next
                      /\ indent_level(lines[r.nodes[i].line]) = indent
                      /\ i > 1 => r.nodes[i - 1].line < r.nodes[i].line
          /\ (real # {} /\ indent_level(lines[Min(real)]) < indent) =>
                r = Parsed(<< >>, Min(real) - 1)
          /\ (real # {} /\ indent_level(lines[Min(real)]) > indent) =>
                r.err = ParseError("Unexpected indent", Min(real))
          /\ real = {} => r = Parsed(<< >>, Len(lines))
          /\ (r.err # NoErr /\ r.err.msg = "Unexpected indent") =>
                /\ r.err.line \in real
                /\ indent_level(lines[r.err.line]) > indent

\* the source of the run holds a nested block with a statement and a comment
\* line in it, ended by a less indented line that became the next statement
\* of the enclosing block, and the run has executed a statement
C17_Witness ==
    /\ runs = 1 /\ hist # << >>
    /\ \E start \in 1..Len(source.lines) :
          LET r == parse_block(source.lines, start, IndentStep) IN
          /\ r.err = NoErr /\ r.nodes # << >>
          /\ r.next < Len(source.lines)
          /\ \E l \in (start + 1)..r.next : is_skipped(source.lines[l])
          /\ \E i \in 1..Len(parse_block(source.lines, 0, 0).nodes) :
                parse_block(source.lines, 0, 0).nodes[i].line = r.next + 1

\* an `ask` line without "->", or a `function` header without its '(' or
\* without its ')'
Malformed(line) ==
    \/ line.form = "ask" /\ ~line.arrow
    \/ line.form = "function" /\ (~line.open \/ ~line.close)

\* C18 (as claimed): when the lines in front of a malformed header parse and
\* the header stands at the top level, parsing the source raises a parse
\* error carrying the header's 1-based line number; run() reports that
\* error and executes nothing.
C18_MalformedHeaderRejected ==
    \A l \in RealLines(source.lines, 0) :
       (/\ Malformed(source.lines[l])
        /\ indent_level(source.lines[l]) = 0
        /\ parse_block(SubSeq(source.lines, 1, l - 1), 0, 0).err = NoErr) =>
          /\ parse_block(source.lines, 0, 0).err # NoErr
          /\ parse_block(source.lines, 0, 0).err.line = l
          /\ runs > 0 =>
                /\ stack = << >>
                /\ \A j \in 1..Len(hist) : hist[j].run # runs
                /\ err # << >> /\ Last(err).run = runs /\ Last(err).line = l

\* C19 (as claimed): a statement whose expression text has characters left
\* after its longest valid prefix raises an evaluation error: the
\* evaluation yields no value, the step prints nothing and changes no
\* environment, and the error is reported or handed to an except-block.
C19_TrailingTextRejected ==
    [][(AtNode /\ Node.kind \in {"Say", "Assign", "ExprStmt"} /\ ExprOf(Node).k = "trail") =>
          /\ eval_expr(envs, Top.env, ExprOf(Node)).tag = "err"
          /\ out' = out
          /\ \A e \in 1..Len(envs) : envs'[e] = envs[e]
          /\ \/ stack' = << >> /\ Len(err') = Len(err) + 1
             \/ stack' # << >> /\ Last(stack').kind = "except" /\ err' = err]_vars

\* the value of the subscripted primary and of the subscript of statement
\* `node`, evaluated in the current environment
Subscripted(node) == eval_expr(envs, Top.env, ExprOf(node).base)
Subscript(node) == eval_expr(envs, Top.env, ExprOf(node).idx)

\* C20 (as claimed): a statement whose expression is x[i], with x and i
\* evaluating to values: when x is a list of length n and 0 <= i < n the
\* statement prints (say) or binds (assignment) the i-th element; when i is
\* outside that range an out-of-range error is raised; when x is not a
\* list a type error is raised; in the error cases nothing is printed, no
\* environment changes, and the error is reported or handed to an
\* except-block.
C20_SubscriptChecked ==
    [][(/\ AtNode /\ Node.kind \in {"Say", "Assign"} /\ ExprOf(Node).k = "index"
        /\ Subscripted(Node).tag = "value" /\ Subscript(Node).tag = "value"
        /\ Subscript(Node).val.k = "int") =>
          LET x == Subscripted(Node).val
              i == Subscript(Node).val.v
          IN IF is_list_value(x) /\ 0 <= i /\ i < Len(x.v)
             THEN /\ err' = err
                  /\ Node.kind = "Say" => out' = Append(out, value_to_string(x.v[i + 1]))
                  /\ Node.kind = "Assign" => envs'[Top.env].vars[Node.name] = x.v[i + 1]
             ELSE /\ out' = out
                  /\ \A e \in 1..Len(envs) : envs'[e] = envs[e]
                  /\ \/ /\ stack' = << >> /\ Len(err') = Len(err) + 1
                        /\ Last(err').msg = (IF is_list_value(x) THEN "List index out of range"
                                             ELSE "Object is not subscriptable (not a list)")
                     \/ stack' # << >> /\ Last(stack').kind = "except" /\ err' = err]_vars

\* the statement about to run assigns l op r with op one of ops
AtBinary(ops) ==
    /\ AtNode /\ Node.kind = "Assign"
    /\ Node.expr.k = "bin" /\ Node.expr.op \in ops

\* the values of the two operands of that statement
LeftValue == eval_expr(envs, Top.env, Node.expr.l).val
RightValue == eval_expr(envs, Top.env, Node.expr.r).val

\* the step raises an error: no binding changes and the run reports it
RaisesError ==
    /\ envs' = envs
    /\ out' = out
    /\ stack' = << >>
    /\ Len(err') = Len(err) + 1

\* C21: `+` with a string on either side yields the string made of the
\* stringified left operand followed by the stringified right operand
\* (None, true/false, decimal integers, [e1, e2] for lists); with two
\* numbers it yields their sum; with no string and an operand that is not
\* a number it raises.
C21_PlusConcatenatesOrAdds ==
    [][AtBinary({"+"}) =>
         IF LeftValue.k = "str" \/ RightValue.k = "str"
         THEN /\ envs'[Top.env].vars[Node.name] =
                    make_str(value_to_string(LeftValue) \o value_to_string(RightValue))
              /\ err' = err
         ELSE IF LeftValue.k \in {"int", "float"} /\ RightValue.k \in {"int", "float"}
         THEN /\ envs'[Top.env].vars[Node.name] =
                    make_double(add(value_as_number(LeftValue), value_as_number(RightValue)))
              /\ err' = err
         ELSE RaisesError]_vars

\* `x = None + "ab"` has run and x is the string Noneab
C21_Witness ==
    /\ source.label = "binary"
    /\ source.lines[1].expr = Bin("+", Id("None"), Txt("ab"))
    /\ envs[1].vars["x"] = make_str("Noneab")

\* C22: for integers a and b, `a / b` with b # 0 yields a Float64 q with
\* q * b = a, the exact quotient and not its whole part; `a / 0` and
\* `a % 0` raise an error and yield no value.
C22_DivisionIsExact ==
    [][(AtBinary({"/", "%"}) /\ LeftValue.k = "int" /\ RightValue.k = "int") =>
         IF RightValue.v = 0 THEN RaisesError
         ELSE Node.expr.op = "/" =>
                LET q == envs'[Top.env].vars[Node.name] IN
                /\ q.k = "float"
                /\ q.v.d > 0
                /\ q.v.n * RightValue.v = LeftValue.v * q.v.d
                /\ err' = err]_vars

\* `x = 7 / 2` has run and x is the Float64 seven halves, printed 3.500000
C22_Witness ==
    /\ source.label = "binary"
    /\ source.lines[1].expr = Bin("/", Num(7), Num(2))
    /\ envs[1].vars["x"].k = "float"
    /\ value_to_string(envs[1].vars["x"]) = "3.500000"

\* C23 (as claimed): `-`, `*`, `/`, `%` and `^` are numeric-only: with two
\* operands that are Int64 or Float64 the result is a Float64 (or the
\* division-by-zero error), and with an operand of any other kind, a String
\* included, the step raises an error and binds nothing.
C23_NumericOnlyOperators ==
    [][AtBinary({"-", "*", "/", "%", "^"}) =>
         IF LeftValue.k \in {"int", "float"} /\ RightValue.k \in {"int", "float"}
         THEN \/ envs'[Top.env].vars[Node.name].k = "float" /\ err' = err
              \/ /\ Node.expr.op \in {"/", "%"} /\ value_as_number(RightValue).n = 0
                 /\ RaisesError
         ELSE RaisesError]_vars

\* the statement about to run assigns the value of a call of name `id`
AtCallOf(id) ==
    /\ AtNode /\ Node.kind = "Assign"
    /\ Node.expr.k = "call" /\ Node.expr.name = id

\* C24: `range(a, b)` on integers yields the list a, a+1, ..., b-1, of
\* length max(0, b - a) (empty when a >= b); a call of range with a number
\* of arguments other than 2 raises an error.
C24_RangeHalfOpen ==
    [][(AtCallOf("range") /\ \A i \in 1..Len(Node.expr.args) :
                                /\ Node.expr.args[i].k = "lit"
                                /\ Node.expr.args[i].v.k = "int") =>
         IF Len(Node.expr.args) = 2
         THEN LET a == Node.expr.args[1].v.v
                  b == Node.expr.args[2].v.v
                  list == envs'[Top.env].vars[Node.name]
              IN /\ list.k = "list"
                 /\ Len(list.v) = (IF b - a > 0 THEN b - a ELSE 0)
                 /\ \A i \in 1..Len(list.v) : list.v[i] = make_int(a + i - 1)
                 /\ err' = err
         ELSE RaisesError /\ Last(err').msg = "range() requires 2 arguments"]_vars

\* `x = range(-2, 1)` has run and x is [-2, -1, 0]
C24_Witness ==
    /\ source.label = "range"
    /\ source.lines[1].expr.args = << Num(-2), Num(1) >>
    /\ value_to_string(envs[1].vars["x"]) = "[-2, -1, 0]"

\* C25: `lst2 = append(lst, v)` with lst a list binds lst2 to the elements
\* of lst followed by v and changes the binding of lst in no environment;
\* with a first argument that is not a list it raises an error.
C25_AppendDoesNotMutate ==
    [][(AtCallOf("append") /\ Len(Node.expr.args) = 2 /\ Node.expr.args[1].k = "id"
          /\ Node.expr.args[1].name # Node.name) =>
         LET lst == get(envs, Top.env, Node.expr.args[1].name)
             v == eval_expr(envs, Top.env, Node.expr.args[2]).val
         IN IF is_list_value(lst)
            THEN /\ envs'[Top.env].vars[Node.name] = make_list(Append(lst.v, v))
                 /\ \A e \in 1..Len(envs) :
                       envs'[e].vars[Node.expr.args[1].name] = envs[e].vars[Node.expr.args[1].name]
                 /\ get(envs', Top.env, Node.expr.args[1].name) = lst
                 /\ err' = err
            ELSE /\ RaisesError
                 /\ Last(err').msg = "First argument to append() must be a list"]_vars

\* under `if 1:`, `y = append(x, 7)` has run with x = [1, "ab"]: y holds
\* three elements in the block's scope and x still holds two
C25_Witness ==
    /\ source.label = "append"
    /\ Len(envs) = 2
    /\ envs[2].vars["y"] = make_list(<< make_int(1), make_str("ab"), make_int(7) >>)
    /\ envs[1].vars["x"] = make_list(<< make_int(1), make_str("ab") >>)

\* C26 (as claimed): there is one function table per session: a FunctionDef
\* executed anywhere, the top level of an imported module included, stores
\* its entry in the table of the session's interpreter, which the calls of
\* the importing program consult; the entry replaces an earlier one of the
\* same name, and no entry ever leaves the table.
C26_OneFunctionTable ==
    [][/\ (AtNode /\ Node.kind = "FunctionDef") =>
            /\ Node.name \in DOMAIN interps'[1].functions
            /\ interps'[1].functions[Node.name].params = Node.params
            /\ interps'[1].functions[Node.name].block = Node.block
       /\ \A n \in DOMAIN interps[1].functions : n \in DOMAIN interps'[1].functions]_vars

\* the block a block statement holds
body_of(node) ==
    CASE node.kind = "If" -> node.then_block
      [] node.kind = "TryExcept" -> node.try_block
      [] OTHER -> node.block

\* the first node under d enclosing block statements
RECURSIVE Innermost(_, _)
Innermost(nodes, d) ==
    IF d = 0 THEN nodes[1] ELSE Innermost(body_of(nodes[1]), d - 1)

\* C27 (as claimed): at every nesting depth a `try:` line, its block and an
\* `except:` line at the indentation of the `try:` parse into one TryExcept
\* node whose except-block is the block under `except:`.
C27_TryExceptAtEveryDepth ==
    source.label = "nested" =>
       LET p == parse(source.lines)
           d == Len(source.lines) - 5
       IN /\ p.err = NoErr
          /\ Innermost(p.nodes, d).kind = "TryExcept"
          /\ Innermost(p.nodes, d).line = d + 1
          /\ Innermost(p.nodes, d).except_block = << Say(d + 4, Num(2)) >>

\* C28 (as claimed): a While loop ends normally only at the first
\* evaluation of its condition: when an iteration has completed, the loop
\* starts another iteration or an error is raised, and the statement after
\* the loop is never reached.
C28_WhileEndsOnlyAtFirstTest ==
    [][(AtEnd /\ Top.kind = "while") => stack' # Advance(Front(stack))]_vars

\* the statement about to run holds a call `id(args)` of a name that is bound
\* and whose arguments have values
AtCall ==
    /\ AtNode /\ Node.kind \in {"Say", "Assign", "FunctionCall", "ExprStmt"}
    /\ ExprOf(Node).k = "call" /\ ~is_literal_name(ExprOf(Node).name)
    /\ get(envs, Top.env, ExprOf(Node).name) # Unbound
    /\ parse_args(envs, Top.env, ExprOf(Node).args, 1, <<>>, <<>>).tag = "value"

\* C29: builtin dispatch depends on the bound value, not on the name: a call
\* `id(args)` runs a builtin exactly when the value id resolves to through
\* the environment chain is one of the seven marker strings.  When it is, the
\* statement enters no function body and completes with what that builtin
\* yields and prints; when it is not (the name was rebound, even a builtin's
\* name), the call enters the body of the user function of that name or
\* raises, and never completes with a builtin's value.
C29_DispatchOnBoundValue ==
    [][(AtCall /\ hist' # hist) =>
        LET id == ExprOf(Node).name
            v == get(envs, Top.env, id)
            a == parse_args(envs, Top.env, ExprOf(Node).args, 1, <<>>, <<>>)
            functions == interps[Top.interp].functions
        IN IF is_marker(v)
           THEN LET b == builtin(v.v, a.val.v) IN
                /\ Len(stack') <= Len(stack)
                /\ out' = out \o a.prints \o b.prints \o
                          (IF b.tag = "value" /\ Node.kind = "Say"
                           THEN << value_to_string(b.val) >> ELSE << >>)
                /\ (b.tag = "value" /\ Node.kind # "Assign") => stack' = Advance(stack)
           ELSE /\ stack' # Advance(stack)
                /\ out' = out \o a.prints
                /\ Len(stack') > Len(stack) =>
                       /\ id \in DOMAIN functions
                       /\ stack' = Append(stack, Last(stack'))
                       /\ Last(stack').kind = "call"
                       /\ Last(stack').block = functions[id].block]_vars

\* reached: the run in which a variable bound to print's marker and one bound
\* to a string equal to len's marker both dispatched, a rebound len entered
\* the user function len, and len outside that scope was the builtin again
C29_Witness ==
    /\ source.label = "dispatch" /\ stack = << >> /\ err = << >>
    /\ out = << "1 2", "2", "4", "None", "2" >>

\* C30: interpreter state persists across successive run() calls on the same
\* Interpreter and is never rolled back.  The global environment is one
\* object for the whole session and keeps having no parent; no step removes
\* a global binding or a function definition; and the steps that begin a
\* run, end it or abort it with an error leave every global binding and
\* every function definition as the statements executed so far made them.
C30_StatePersistsAcrossRuns ==
    [][LET g == interps[1].global_env IN
       /\ interps'[1].global_env = g
       /\ envs'[g].parent = 0
       /\ DOMAIN envs[g].vars \subseteq DOMAIN envs'[g].vars
       /\ DOMAIN interps[1].functions \subseteq DOMAIN interps'[1].functions
       /\ (stack = << >> \/ stack' = << >>) =>
              /\ envs'[g].vars = envs[g].vars
              /\ interps'[1].functions = interps[1].functions]_vars

\* reached: a second run has called the function and printed the global that
\* a first run had defined and bound before an error aborted it
C30_Witness ==
    /\ runs = 2 /\ source.label = "uselater" /\ stack = << >>
    /\ out = << "3", "3" >>
    /\ Len(err) = 1 /\ err[1].run = 1 /\ err[1].file = "bindfail"
====
